---- MODULE Spec2Model ----
(***************************************************************************)
(* A model of promptflow's execution core.                                 *)
(*                                                                         *)
(*  - FlowNodesScheduler (executor/_flow_nodes_scheduler.py): the main     *)
(*    loop that submits ready nodes of one flow line to a thread pool,     *)
(*    waits for futures, and cancels on the first exception.               *)
(*  - FlowExecutionContext (_core/flow_execution_context.py): invoke_tool, *)
(*    invoke_tool_async, bypass_node and the cache protocol around a tool. *)
(*  - The DAG manager, the cache manager and the run tracker are used by   *)
(*    that code but defined elsewhere; they are modelled from their        *)
(*    documented contracts.                                                *)
(*                                                                         *)
(* A flow is a DAG over Nodes = 1..NumNodes.  Node n may reference the     *)
(* outputs of lower-numbered nodes (a topological numbering, which every   *)
(* acyclic flow has) and always reads the flow input.  Every node has its  *)
(* own tool.                                                               *)
(***************************************************************************)
EXTENDS Integers, FiniteSets, Sequences, TLC

\* ------------------------------------------------------------------ bounds
NumNodes == 3
NumValues == 2
MaxConcurrency == 2
MaxRuns == 2
MaxActivate == 2
MaxRaising == 1
NumLines == 3
MaxProcesses == 2
MaxDuration == 2
MaxTimeoutSec == 2
MaxLineNumber == 10
MaxRunIds == 2
NumUuids == 2
NumBatchLines == 2
MaxOps == 5
NumStorageLines == 4
MaxBatchSize == 2
NumWriters == 2
MaxPersists == 2
NumOutputLines == 4
MaxRecords == 2
MaxElements == 3
MaxSegments == 2
NumWideNodes == 18
MaxPushes == 4
NumTracerRuns == 2
MaxWideConcurrency == 18

\* ------------------------------------------------------- program constants
DEFAULT_CONCURRENCY_FLOW == 16

Nodes == 1..NumNodes
Values == 0..(NumValues - 1)
\* Python's None (a bypassed node's output, a null activate value).
None == -1
ValuesOrNone == Values \cup {None}

Min(a, b) == IF a < b THEN a ELSE b

RECURSIVE SumOver(_, _)
SumOver(f, S) ==
    IF S = {} THEN 0
    ELSE LET x == CHOOSE y \in S : TRUE
         IN (IF f[x] = None THEN 0 ELSE f[x]) + SumOver(f, S \ {x})

VARIABLES
    \* ---- the flow definition and the scheduler's arguments (fixed per behaviour)
    deps,               \* deps[n]: the nodes whose output node n's inputs reference
    activate,           \* activate[n]: [when, is]; when = -1: no activate config,
                        \*   when = 0: the flow input, when = m: ${m.output}
    enable_cache,       \* enable_cache[n]: the node's enable_cache flag
    tool,               \* tool[n]: [coroutine, raises, hashable]
    flow_inputs,        \* the value of the flow input
    node_concurrency,   \* the configured node_concurrency
    \* ---- DAGManager
    pending_nodes,
    completed_nodes_outputs,
    bypassed_nodes,
    \* ---- FlowNodesScheduler / ThreadPoolExecutor
    pc,                 \* position of the thread that runs execute()
    future_to_node,     \* the nodes that have a future in _future_to_node
    future,             \* future[n]: [state, result, exception]
    raised,             \* the exception execute() raises
    dag_manager_calls,  \* the calls of the DAG manager made so far in this
                        \*   execute(): <<thread, operation>>
    \* ---- FlowExecutionContext, RunTracker, CacheManager
    run_id,             \* the context's run id (the number of the run)
    cache,              \* the cache manager's entries
    run_infos,          \* run tracker: the node run infos of this run
    task,               \* per worker task: [kwargs, hit_cache, result]
    tool_calls,         \* tool_calls[n]: how often n's tool was invoked in this run
    \* ---- the batch: its lines and the line execution pool's configuration
    line_duration,      \* line_duration[l]: seconds exec_line takes for line l
    line_outcome,       \* line_outcome[l]: "Completed", or the code of the
                        \*   exception exec_line raises
    line_timeout_sec,
    n_process,          \* the number of worker processes
    \* ---- LineExecutionProcessPool
    pool_pc,            \* "init", "running", "returned" (run has returned),
                        \*   "emitted" (the batch boundary)
    task_queue,         \* the lines not yet taken by a worker
    worker,             \* worker[w]: [state, line, elapsed]
    terminated,         \* the lines whose worker process was terminated
    result_list,        \* the LineResults in the order they were appended
    outputs,            \* the results emitted at the batch boundary
    \* ---- node run ids of one flow run
    flow_run_name,      \* the context's _run_id, a string
    aggregation,        \* aggregation[node]: the node's aggregation flag
    node_run_ids,       \* (line_number, node) -> the run id generated for it
    \* ---- the run records (ORM) and the runs' output folders
    orm_runs,           \* run name -> the stored record
    exception_json,     \* run name -> the content of its exception.json
    batch_running,      \* the runs whose batch a submission is executing
    last_op,            \* the last operation: [op, name, error, before, result]
    op_count,           \* the number of operations so far
    \* ---- the local storage of one run and the threads / processes writing it
    batch_size,         \* LOCAL_STORAGE_BATCH_SIZE
    flow_run_status,    \* line number -> the status of the line's FlowRunInfo
    flow_todo,          \* the lines whose FlowRunInfo is still to be persisted
    node_todo,          \* the (node, line number) whose NodeRunInfo is still
                        \*   to be persisted
    writer,             \* writer[w]: the persist call w executes and its position
    flow_artifacts,     \* file name -> the records in flow_artifacts/<name>
    node_artifacts,     \* (node, file name) -> the records in
                        \*   node_artifacts/<node>/<name>
    file_lock,          \* lock path -> the writer that holds the FileLock, or 0
    persist_result,     \* persist call -> "ok", "skipped" or "raised"
    \* ---- the inputs and outputs of a finished batch run
    line_output,        \* line number -> the line's output, None for a failed line
    sdk_files,          \* inputs.jsonl and outputs.jsonl: [inputs, outputs], or
                        \*   <<>> while they do not exist
    loaded,             \* what load_inputs_and_outputs returned, <<>> before
    \* ---- the inputs of a batch run and their processing
    input_dicts,        \* alias -> the list of the alias's records
    inputs_mapping,     \* flow input -> the expression [alias, column]
    batch_inputs,       \* what the batch inputs processor returned, <<>> before
    lines_run,          \* the line numbers of the lines that were executed
    \* ---- the batch engine feeding the pool, and cancellation
    batch_status,       \* the status of the batch run
    unfed,              \* the lines the batch engine has not yet fed to the pool
    cancel,             \* [signalled, in_flight]: whether the cancel signal has
                        \*   arrived, and the lines in flight when it arrived
    \* ---- a call of RunOperations.stream
    stream_pc,          \* "idle", "loop" (at the while condition), "sleep",
                        \*   "after" (after the try statement), "returned", "raised"
    stream_args,        \* [name, raise_on_error]
    stream_run,         \* the local variable run: what get returned last
    stream_out,         \* what was printed, in order
    stream_error,       \* the exception the call raised: [type, message]
    \* ---- the tracer and one tool call whose output it pops
    pop_output,         \* the output given to pop: [lazy, value]
    last_trace,         \* the trace on top of the stack: [output, ended]
    source_rest,        \* the elements the lazy sequence has not yet produced
    proxy_items,        \* the items the proxy has captured
    generator,          \* the generator pop returned: "none", "suspended",
                        \*   "exhausted"
    received,           \* what the caller has received from pop: the elements
                        \*   yielded so far, or the returned value
    \* ---- one call of invoke_tool / invoke_tool_async, statement by statement
    inv_pc,             \* "idle", "try", "end_run", "except", "finally",
                        \*   "returned", "raised"
    inv_call,           \* the call: [coroutine, hit_cache, raises, late_error,
                        \*   result]
    inv_info,           \* the node's run info in the run tracker
    inv_clock,          \* the time: the number of statements executed
    inv_ignored,        \* how many end_run calls were logged and ignored
    inv_exception,      \* whether an exception is being propagated
    \* ---- the configuration and the output path of a run
    config,             \* the stored configuration: the value of run.output_path,
                        \*   <<>> when it is not set
    config_op,          \* the last set_config: [value, error, before]
    output_path,        \* what _generate_output_path returned last:
                        \*   [flow, base, warned], <<>> before
    \* ---- the tracer of one execution context
    tracer,             \* the instance the context variable holds:
                        \*   [run_id, traces, trace_stack, objects], or <<>>
    tracer_op,          \* the last call: [op, arg, result, raised, before]
    trace_calls,        \* the push and pop calls the context has seen since
                        \*   the tracer was started: [push, pop]
    \* ---- the worker threads of a flow of many independent nodes
    configured,         \* the node_concurrency the scheduler is created with
    queued,             \* how many submitted tasks wait for a worker thread
    executing,          \* how many tasks run their tool on a worker thread
    done                \* how many tasks have finished

flowvars == <<deps, activate, enable_cache, tool, flow_inputs, node_concurrency>>
dagvars == <<pending_nodes, completed_nodes_outputs, bypassed_nodes>>
schedvars == <<pc, future_to_node, future, raised, dag_manager_calls>>
ctxvars == <<run_id, cache, run_infos, task, tool_calls>>
batchvars == <<line_duration, line_outcome, line_timeout_sec, n_process>>
poolvars == <<batchvars, pool_pc, task_queue, worker, terminated, result_list, outputs>>
idvars == <<flow_run_name, aggregation, node_run_ids>>
runvars == <<orm_runs, exception_json, batch_running, last_op, op_count>>
storevars == <<batch_size, flow_run_status, flow_todo, node_todo, writer,
               flow_artifacts, node_artifacts, file_lock, persist_result>>
iovars == <<line_output, sdk_files, loaded>>
\* The parts of the program that were added to the model last.
inpvars == <<input_dicts, inputs_mapping, batch_inputs, lines_run>>
feedvars == <<batch_status, unfed, cancel>>
streamvars == <<stream_pc, stream_args, stream_run, stream_out, stream_error>>
tracevars == <<pop_output, last_trace, source_rest, proxy_items, generator, received>>
invokevars == <<inv_pc, inv_call, inv_info, inv_clock, inv_ignored, inv_exception>>
cfgvars == <<config, config_op, output_path>>
tracingvars == <<tracer, tracer_op, trace_calls>>
widevars == <<configured, queued, executing, done>>
lastvars == <<cfgvars, tracingvars, widevars>>
latervars == <<iovars, inpvars, feedvars, streamvars, tracevars, invokevars, lastvars>>
othervars == <<idvars, runvars, storevars, latervars>>
vars == <<flowvars, dagvars, schedvars, ctxvars, poolvars, othervars>>
\* What the scheduler's steps leave alone, and what the pool's steps leave alone.
notsched == <<poolvars, othervars>>
notpool == <<flowvars, dagvars, schedvars, ctxvars, othervars>>

\* ------------------------------------------------------------ flow shapes
NoActivate == [when |-> -1, is |-> None]
HasActivate(n) == activate[n].when >= 0

ActivateChoices(n) ==
    {NoActivate} \cup [when : 0..(n - 1), is : ValuesOrNone]

ToolKinds == [coroutine : BOOLEAN, raises : BOOLEAN, hashable : BOOLEAN]
PlainTool == [coroutine |-> FALSE, raises |-> FALSE, hashable |-> TRUE]

\* ----------------------------------------------------- tools (deterministic)
\* A tool is a deterministic function of the node's resolved inputs: the flow
\* input and the referenced outputs (None for a bypassed reference).
ToolFn(n, kwargs) ==
    (n + flow_inputs + SumOver(kwargs, DOMAIN kwargs)) % NumValues

\* ------------------------------------------------------------ DAG manager
\* The node references a node must see resolved before it can be judged:
\* its input references and the subject of its activate condition.
NodeDependencies(n) ==
    deps[n] \cup (IF activate[n].when >= 1 THEN {activate[n].when} ELSE {})

\* _is_node_ready: every referenced node is completed or bypassed.
IsNodeReady(n, comp, byp) ==
    \A m \in NodeDependencies(n) : m \in DOMAIN comp \/ m \in byp

\* The value a reference to node m resolves to: None when m is bypassed.
ResolvedOutput(m, comp, byp) == IF m \in byp THEN None ELSE comp[m]

ConditionValue(n, comp, byp) ==
    IF activate[n].when = 0 THEN flow_inputs
    ELSE ResolvedOutput(activate[n].when, comp, byp)

\* A ready node is bypassable when its activate condition is false, or when a
\* reference of one of its inputs is bypassed and that reference is not the
\* subject of its activate expression.
IsNodeBypassable(n, comp, byp) ==
    \/ HasActivate(n) /\ ConditionValue(n, comp, byp) # activate[n].is
    \/ \E m \in deps[n] : m \in byp /\ ~(HasActivate(n) /\ activate[n].when = m)

\* pop_bypassable_nodes, called until it returns nothing (_execute_nodes'
\* while loop): the bypassed set after the loop.
RECURSIVE PopBypassableNodes(_, _, _)
PopBypassableNodes(pend, comp, byp) ==
    LET b == {n \in pend : IsNodeReady(n, comp, byp) /\ IsNodeBypassable(n, comp, byp)}
    IN IF b = {} THEN byp ELSE PopBypassableNodes(pend \ b, comp, byp \cup b)

\* pop_ready_nodes: the pending nodes whose references are all resolved.
PopReadyNodes(pend, comp, byp) == {n \in pend : IsNodeReady(n, comp, byp)}

\* complete_nodes: record the outputs of the nodes in `outs`.
CompleteNodes(comp, outs) ==
    [m \in (DOMAIN comp) \cup (DOMAIN outs) |->
        IF m \in DOMAIN outs THEN outs[m] ELSE comp[m]]

\* completed(): every node is completed or bypassed.
DagCompleted ==
    Cardinality(DOMAIN completed_nodes_outputs) + Cardinality(bypassed_nodes)
        = Cardinality(Nodes)

\* get_node_valid_inputs: the node's input references resolved against the
\* completed outputs, a bypassed reference as None.
GetNodeValidInputs(n) ==
    [m \in deps[n] |-> ResolvedOutput(m, completed_nodes_outputs, bypassed_nodes)]

\* ---------------------------------------------------------- cache manager
NoCacheInfo == <<>>
\* calculate_cache_info: null for a tool whose inputs cannot be fingerprinted,
\* else the fingerprint of (flow id, tool, inputs).  One flow and one tool per
\* node: the fingerprint is the node with its resolved inputs.
CalculateCacheInfo(n, kwargs) ==
    IF tool[n].hashable THEN <<n, flow_inputs, kwargs>> ELSE NoCacheInfo

CacheMiss ==
    [hit_cache |-> FALSE, result |-> None, cached_run_id |-> <<>>,
     cached_flow_run_id |-> 0]

\* get_cache_result: the entry recorded for the fingerprint, if any.
GetCacheResult(cache_info) ==
    IF \E e \in cache : e.hash_id = cache_info
    THEN LET e == CHOOSE x \in cache : x.hash_id = cache_info
         IN [hit_cache |-> TRUE, result |-> e.result,
             cached_run_id |-> e.run_id, cached_flow_run_id |-> e.flow_run_id]
    ELSE CacheMiss

\* persist_result: record hash_id -> (run id, flow run id, result).
PersistResult(c, n, rid, cache_info, result) ==
    c \cup {[hash_id |-> cache_info, run_id |-> <<rid, n>>,
             flow_run_id |-> rid, result |-> result]}

\* ------------------------------------------------------------ run tracker
NoRunInfo ==
    [status |-> "NotStarted", output |-> None, error |-> FALSE,
     cached_run_id |-> <<>>, cached_flow_run_id |-> 0, persisted |-> 0]

\* start_node_run: a Running record.
StartNodeRun(info) == [info EXCEPT !.status = "Running"]

\* end_run with a result / with an exception.
EndRunResult(info, result) ==
    [info EXCEPT !.status = "Completed", !.output = result]
EndRunException(info) == [info EXCEPT !.status = "Failed", !.error = TRUE]

\* bypass_node_run: a terminal Bypassed record with null output.
BypassNodeRun(info) == [info EXCEPT !.status = "Bypassed", !.output = None]

\* persist_node_run: hand the record to the storage.
PersistNodeRun(info) == [info EXCEPT !.persisted = @ + 1]

\* --------------------------------------------------- FlowExecutionContext
\* _generate_node_run_id: "{run_id}_{node}_{line_number}", one line per context.
GenerateNodeRunId(n) == <<run_id, n>>

\* A slip in bypass_node: the bypassed run is not recorded.
BypassNodeUnrecorded(infos, n) == infos

\* bypass_node: record the bypassed node run and persist it.
BypassNode(infos, n) ==
    [infos EXCEPT ![n] = PersistNodeRun(BypassNodeRun(@))]

\* _prepare_node_run
PrepareNodeRun(infos, n) == [infos EXCEPT ![n] = StartNodeRun(@)]

\* A slip in invoke_tool: the cache is queried whatever the node's flag.
InvokeToolLookupAnyNode(n, kwargs) ==
    LET cache_info == CalculateCacheInfo(n, kwargs)
    IN IF cache_info # NoCacheInfo
       THEN GetCacheResult(cache_info)
       ELSE CacheMiss

\* A slip in invoke_tool: a hit is taken but cached_run_id is not assigned.
InvokeToolLookupNoRunId(n, kwargs) ==
    LET cache_info == CalculateCacheInfo(n, kwargs)
    IN IF enable_cache[n] /\ cache_info # NoCacheInfo
       THEN [GetCacheResult(cache_info) EXCEPT !.cached_run_id = <<>>]
       ELSE CacheMiss

\* invoke_tool, the cache lookup: only when the node has enable_cache set
\* and the cache info is non-null.
InvokeToolLookup(n, kwargs) ==
    LET cache_info == CalculateCacheInfo(n, kwargs)
    IN IF enable_cache[n] /\ cache_info # NoCacheInfo
       THEN GetCacheResult(cache_info)
       ELSE CacheMiss

\* invoke_tool_async: no cache lookup at all.
InvokeToolAsyncLookup(n, kwargs) == CacheMiss

\* A slip in _persist_cache: the new record replaces what the cache held.
PersistCacheReplacing(c, n, kwargs, result) ==
    LET cache_info == CalculateCacheInfo(n, kwargs)
    IN IF cache_info # NoCacheInfo
       THEN PersistResult({}, n, run_id, cache_info, result)
       ELSE c

\* _persist_cache: record the result if the cache info is valid.
PersistCache(c, n, kwargs, result) ==
    LET cache_info == CalculateCacheInfo(n, kwargs)
    IN IF cache_info # NoCacheInfo
       THEN PersistResult(c, n, run_id, cache_info, result)
       ELSE c

\* invoke_tool, after end_run: "if not hit_cache and node.enable_cache".
InvokeToolPersist(c, n, kwargs, hit_cache, result) ==
    IF ~hit_cache /\ enable_cache[n] THEN PersistCache(c, n, kwargs, result) ELSE c

\* invoke_tool_async never records a result in the cache.
InvokeToolAsyncPersist(c, n, kwargs, hit_cache, result) == c

\* ------------------------------------------------------------- scheduler
NoFuture == [state |-> "none", result |-> None, exception |-> FALSE]
NoTask == [kwargs |-> <<>>, hit_cache |-> FALSE, result |-> None]
NoException == [kind |-> "none", node |-> 0]

\* A slip in __init__: the configured concurrency is taken as it is.
NodeConcurrencyAsConfigured(concurrency) == concurrency

\* __init__: self._node_concurrency.
NodeConcurrency(concurrency) == Min(concurrency, DEFAULT_CONCURRENCY_FLOW)

\* The worker threads of execute's ThreadPoolExecutor.
MaxWorkersOfPool == NodeConcurrency(node_concurrency)

RunningTasks == {n \in Nodes : future[n].state = "running"}

\* A slip in _submit_nodes: every node without a future is submitted.
SubmitNodesAll(fut, nodes) ==
    [n \in Nodes |-> IF fut[n].state = "none" /\ n \notin bypassed_nodes
                     THEN [NoFuture EXCEPT !.state = "pending"]
                     ELSE fut[n]]

\* _submit_nodes: a pending future for each node.
SubmitNodes(fut, nodes) ==
    [n \in Nodes |-> IF n \in nodes THEN [NoFuture EXCEPT !.state = "pending"]
                     ELSE fut[n]]

\* A slip in _execute_nodes: the nodes that were bypassed are submitted with
\* the ready nodes.
ExecuteNodesSubmitsBypassed(comp, f2n) ==
    LET byp == PopBypassableNodes(pending_nodes, comp, bypassed_nodes)
        newly == byp \ bypassed_nodes
        nodes_to_exec == newly \cup PopReadyNodes(pending_nodes \ newly, comp, byp)
    IN /\ bypassed_nodes' = byp
       /\ pending_nodes' = pending_nodes \ nodes_to_exec
       /\ run_infos' = [n \in Nodes |->
                          IF n \in newly THEN BypassNode(run_infos, n)[n]
                          ELSE run_infos[n]]
       /\ future' = SubmitNodes(future, nodes_to_exec)
       /\ future_to_node' = f2n \cup nodes_to_exec

\* _execute_nodes: bypass until nothing is left to bypass, then submit the
\* ready nodes.  `comp` and `f2n` are the completed outputs and the future
\* map the caller has just updated.
ExecuteNodes(comp, f2n) ==
    LET byp == PopBypassableNodes(pending_nodes, comp, bypassed_nodes)
        newly == byp \ bypassed_nodes
        nodes_to_exec == PopReadyNodes(pending_nodes \ newly, comp, byp)
    IN /\ bypassed_nodes' = byp
       /\ pending_nodes' = pending_nodes \ (newly \cup nodes_to_exec)
       /\ run_infos' = [n \in Nodes |->
                          IF n \in newly THEN BypassNode(run_infos, n)[n]
                          ELSE run_infos[n]]
       /\ future' = SubmitNodes(future, nodes_to_exec)
       /\ future_to_node' = f2n \cup nodes_to_exec

\* A slip in _collect_outputs: every node gets the result of one future.
CollectOutputsOneResult(completed_futures) ==
    [n \in completed_futures |->
        future[CHOOSE m \in completed_futures : TRUE].result]

\* A slip in _collect_outputs: the results of the futures are dropped.
CollectOutputsNothing(completed_futures) == <<>>

\* _collect_outputs: node name -> result of each completed future.
CollectOutputs(completed_futures) ==
    [n \in completed_futures |-> future[n].result]

\* A slip in the except branch: nothing is cancelled.
CancelFuturesNone(fut, f2n) == fut

\* The except branch of execute: cancel every future still in the map; only
\* a pending future can be cancelled.
CancelFutures(fut, f2n) ==
    [n \in Nodes |->
        IF n \in f2n /\ fut[n].state = "pending"
        THEN [fut[n] EXCEPT !.state = "cancelled"]
        ELSE fut[n]]

\* The thread makes the calls ops of the DAG manager.
Calls(thread, ops) ==
    dag_manager_calls' = dag_manager_calls \cup {<<thread, op>> : op \in ops}

\* The DAG manager operations of _execute_nodes.
ExecuteNodesCalls == {"pop_bypassable_nodes", "pop_ready_nodes"}

\* A slip in _exec_single_node_in_thread: the worker also records its node
\* as completed.
WorkerCallsCompleteNodes == {"get_node_valid_inputs", "complete_nodes"}

\* The DAG manager operations of _exec_single_node_in_thread.
WorkerCalls == {"get_node_valid_inputs"}

\* execute, up to the loop: the first _execute_nodes.
Execute ==
    /\ UNCHANGED notsched
    /\ Calls("MainThread", ExecuteNodesCalls)
    /\ pc = "start"
    /\ ExecuteNodes(completed_nodes_outputs, future_to_node)
    /\ pc' = "loop"
    /\ UNCHANGED <<flowvars, completed_nodes_outputs, raised, run_id, cache,
                   task, tool_calls>>

\* A worker thread takes a submitted task: _exec_single_node_in_thread up to
\* the tool call (inputs resolved, node run prepared, cache looked up).
StartTask(n) ==
    /\ UNCHANGED notsched
    /\ Calls("Worker", WorkerCalls)
    /\ future[n].state = "pending"
    /\ Cardinality(RunningTasks) < MaxWorkersOfPool
    /\ LET kwargs == GetNodeValidInputs(n)
           cache_result == IF tool[n].coroutine
                           THEN InvokeToolAsyncLookup(n, kwargs)
                           ELSE InvokeToolLookup(n, kwargs)
       IN /\ task' = [task EXCEPT ![n] = [kwargs |-> kwargs,
                                          hit_cache |-> cache_result.hit_cache,
                                          result |-> cache_result.result]]
          /\ run_infos' = [PrepareNodeRun(run_infos, n) EXCEPT
                             ![n].cached_run_id = cache_result.cached_run_id,
                             ![n].cached_flow_run_id = cache_result.cached_flow_run_id]
          /\ tool_calls' = [tool_calls EXCEPT
                              ![n] = IF cache_result.hit_cache THEN @ ELSE @ + 1]
    /\ future' = [future EXCEPT ![n].state = "running"]
    /\ UNCHANGED <<flowvars, dagvars, pc, future_to_node, raised, run_id, cache>>

\* A slip in invoke_tool: the except branch ends the run but does not
\* re-raise, so the task returns None.
FinishTaskSwallowsException(n) ==
    /\ UNCHANGED notsched
    /\ future[n].state = "running"
    /\ IF ~task[n].hit_cache /\ tool[n].raises
       THEN /\ run_infos' = [run_infos EXCEPT
                               ![n] = PersistNodeRun(EndRunException(@))]
            /\ future' = [future EXCEPT ![n].state = "finished"]
            /\ cache' = cache
       ELSE LET result == IF task[n].hit_cache THEN task[n].result
                          ELSE ToolFn(n, task[n].kwargs)
            IN /\ run_infos' = [run_infos EXCEPT
                                  ![n] = PersistNodeRun(EndRunResult(@, result))]
               /\ cache' = IF tool[n].coroutine
                           THEN InvokeToolAsyncPersist(cache, n, task[n].kwargs,
                                                       task[n].hit_cache, result)
                           ELSE InvokeToolPersist(cache, n, task[n].kwargs,
                                                  task[n].hit_cache, result)
               /\ future' = [future EXCEPT ![n].state = "finished",
                                           ![n].result = result]
    /\ UNCHANGED <<flowvars, dagvars, pc, future_to_node, raised, run_id, task,
                   tool_calls, dag_manager_calls>>

\* The tool returns or raises: end_run, the cache record, persist_node_run,
\* and the future's outcome.
FinishTask(n) ==
    /\ UNCHANGED notsched
    /\ future[n].state = "running"
    /\ IF ~task[n].hit_cache /\ tool[n].raises
       THEN /\ run_infos' = [run_infos EXCEPT
                               ![n] = PersistNodeRun(EndRunException(@))]
            /\ future' = [future EXCEPT ![n].state = "finished",
                                        ![n].exception = TRUE]
            /\ cache' = cache
       ELSE LET result == IF task[n].hit_cache THEN task[n].result
                          ELSE ToolFn(n, task[n].kwargs)
            IN /\ run_infos' = [run_infos EXCEPT
                                  ![n] = PersistNodeRun(EndRunResult(@, result))]
               /\ cache' = IF tool[n].coroutine
                           THEN InvokeToolAsyncPersist(cache, n, task[n].kwargs,
                                                       task[n].hit_cache, result)
                           ELSE InvokeToolPersist(cache, n, task[n].kwargs,
                                                  task[n].hit_cache, result)
               /\ future' = [future EXCEPT ![n].state = "finished",
                                           ![n].result = result]
    /\ UNCHANGED <<flowvars, dagvars, pc, future_to_node, raised, run_id, task,
                   tool_calls, dag_manager_calls>>

\* One round of execute's while loop.  With no future in the map the round
\* raises NoNodeExecutedError; else futures.wait returns the finished
\* futures, and either their outputs are recorded and the next nodes
\* submitted, or the first result() that raises ends the loop.
WaitFutures ==
    /\ UNCHANGED notsched
    /\ pc = "loop"
    /\ ~DagCompleted
    /\ IF future_to_node = {}
       THEN /\ raised' = [kind |-> "NoNodeExecutedError", node |-> 0]
            /\ pc' = "except"
            /\ Calls("MainThread", {"completed"})
            /\ UNCHANGED <<dagvars, future_to_node, future, run_infos>>
       ELSE LET completed_futures ==
                    {n \in future_to_node : future[n].state = "finished"}
                failed == {n \in completed_futures : future[n].exception}
            IN /\ completed_futures # {}
               /\ IF failed = {}
                  THEN LET comp == CompleteNodes(completed_nodes_outputs,
                                                 CollectOutputs(completed_futures))
                       IN /\ completed_nodes_outputs' = comp
                          /\ ExecuteNodes(comp, future_to_node \ completed_futures)
                          /\ Calls("MainThread", {"completed", "complete_nodes"}
                                                    \cup ExecuteNodesCalls)
                          /\ UNCHANGED <<pc, raised>>
                  ELSE /\ \E n \in failed :
                            raised' = [kind |-> "ToolExecutionError", node |-> n]
                       /\ pc' = "except"
                       /\ Calls("MainThread", {"completed"})
                       /\ UNCHANGED <<dagvars, future_to_node, future, run_infos>>
    /\ UNCHANGED <<flowvars, run_id, cache, task, tool_calls>>

\* The except branch: cancel the futures left in the map, then re-raise.
\* Worker threads keep running while the main thread gets here.
ExceptCancel ==
    /\ UNCHANGED notsched
    /\ pc = "except"
    /\ future' = CancelFutures(future, future_to_node)
    /\ pc' = "shutdown"
    /\ UNCHANGED <<flowvars, dagvars, future_to_node, raised, ctxvars,
                   dag_manager_calls>>

\* Leaving the "with ThreadPoolExecutor" block with the exception: shutdown
\* waits for the worker threads, then the exception propagates.
Raise ==
    /\ UNCHANGED notsched
    /\ pc = "shutdown"
    /\ \A n \in Nodes : future[n].state \notin {"pending", "running"}
    /\ pc' = "raised"
    /\ UNCHANGED <<flowvars, dagvars, future_to_node, future, raised, ctxvars,
                   dag_manager_calls>>

\* A slip after the loop: the bypassed nodes get no output.
ReturnOutputsOfCompleted(comp, byp) == comp

\* After the loop: every bypassed node gets output None in the map that is
\* returned.
ReturnOutputs(comp, byp) ==
    [n \in (DOMAIN comp) \cup byp |-> IF n \in byp THEN None ELSE comp[n]]

Return ==
    /\ UNCHANGED notsched
    /\ pc = "loop"
    /\ DagCompleted
    /\ \A n \in Nodes : future[n].state \notin {"pending", "running"}
    /\ completed_nodes_outputs' = ReturnOutputs(completed_nodes_outputs, bypassed_nodes)
    /\ Calls("MainThread", {"completed", "bypassed_nodes", "completed_nodes_outputs"})
    /\ pc' = "returned"
    /\ UNCHANGED <<flowvars, pending_nodes, bypassed_nodes, future_to_node,
                   future, raised, ctxvars>>

\* The same flow is run again with the same inputs: a new context (a new run
\* id, the same cache manager), a new scheduler and a new run tracker.
NextRun ==
    /\ UNCHANGED notsched
    /\ pc \in {"returned", "raised"}
    /\ run_id < MaxRuns
    /\ run_id' = run_id + 1
    /\ pending_nodes' = Nodes
    /\ completed_nodes_outputs' = <<>>
    /\ bypassed_nodes' = {}
    /\ pc' = "start"
    /\ future_to_node' = {}
    /\ future' = [n \in Nodes |-> NoFuture]
    /\ raised' = NoException
    /\ dag_manager_calls' = {}
    /\ run_infos' = [n \in Nodes |-> NoRunInfo]
    /\ task' = [n \in Nodes |-> NoTask]
    /\ tool_calls' = [n \in Nodes |-> 0]
    /\ UNCHANGED <<flowvars, cache>>


\* ---------------------------------------------------- line execution pool
Lines == 0..(NumLines - 1)
Processes == 1..MaxProcesses

NoError == [code |-> "", message |-> <<>>]

\* A slip in LineExecutionTimeoutError: the arguments are interchanged.
LineExecutionTimeoutErrorSwapped(line_number, timeout) ==
    [code |-> "UserError",
     message |-> <<"Line", timeout, "execution timeout for exceeding",
                   line_number, "seconds">>]

\* LineExecutionTimeoutError, a UserErrorException:
\* "Line {line_number} execution timeout for exceeding {timeout} seconds".
LineExecutionTimeoutError(line_number, timeout) ==
    [code |-> "UserError",
     message |-> <<"Line", line_number, "execution timeout for exceeding",
                   timeout, "seconds">>]

\* The exception exec_line raises for line l, when it raises.
LineException(l) == [code |-> line_outcome[l], message |-> <<"error of line", l>>]

\* A slip in the worker: the failed result does not carry the error.
ExecLineNoError(l) ==
    IF line_outcome[l] = "Completed"
    THEN [line_number |-> l, status |-> "Completed", error |-> NoError]
    ELSE [line_number |-> l, status |-> "Failed", error |-> NoError]

\* The worker's _exec_line: the LineResult of exec_line, an exception turned
\* into a failed LineResult with the error's message and code.
ExecLine(l) ==
    IF line_outcome[l] = "Completed"
    THEN [line_number |-> l, status |-> "Completed", error |-> NoError]
    ELSE [line_number |-> l, status |-> "Failed", error |-> LineException(l)]

\* The synthetic result of a line that timed out.
TimeoutLineResult(l) ==
    [line_number |-> l, status |-> "Failed",
     error |-> LineExecutionTimeoutError(l, line_timeout_sec)]

IdleWorker == [state |-> "idle", line |-> 0, elapsed |-> 0]

\* Insert a result into a sequence sorted by line_number.
RECURSIVE InsertByLineNumber(_, _)
InsertByLineNumber(r, sorted) ==
    IF sorted = <<>> THEN <<r>>
    ELSE IF r.line_number < Head(sorted).line_number THEN <<r>> \o sorted
    ELSE <<Head(sorted)>> \o InsertByLineNumber(r, Tail(sorted))

\* A slip at the batch boundary: the results are left in completion order.
SortByLineNumberUnsorted(results) == results

\* The results sorted by line_number.
RECURSIVE SortByLineNumber(_)
SortByLineNumber(results) ==
    IF results = <<>> THEN <<>>
    ELSE InsertByLineNumber(Head(results), SortByLineNumber(Tail(results)))

\* run: every line of the batch is put on the task queue, in batch order, and
\* n_process workers are started.
PoolRun ==
    /\ pool_pc = "init"
    /\ task_queue' = [i \in 1..NumLines |-> i - 1]
    /\ worker' = [w \in Processes |->
                    IF w <= n_process THEN IdleWorker
                    ELSE [IdleWorker EXCEPT !.state = "unused"]]
    /\ pool_pc' = "running"
    /\ UNCHANGED <<batchvars, terminated, result_list, outputs>>
    /\ UNCHANGED notpool

\* A worker takes the next line from the task queue and hands it to its
\* process.
TakeLine(w) ==
    /\ pool_pc = "running"
    /\ worker[w].state = "idle"
    /\ task_queue # <<>>
    /\ worker' = [worker EXCEPT ![w] = [state |-> "waiting",
                                        line |-> Head(task_queue),
                                        elapsed |-> 0]]
    /\ task_queue' = Tail(task_queue)
    /\ UNCHANGED <<batchvars, pool_pc, terminated, result_list, outputs>>
    /\ UNCHANGED notpool

\* A second passes while the worker waits for its line's result.
Tick(w) ==
    /\ worker[w].state = "waiting"
    /\ worker[w].elapsed < line_timeout_sec
    /\ worker[w].elapsed < line_duration[worker[w].line]
    /\ worker' = [worker EXCEPT ![w].elapsed = @ + 1]
    /\ UNCHANGED <<batchvars, pool_pc, task_queue, terminated, result_list, outputs>>
    /\ UNCHANGED notpool

\* The process returns the line's result within the timeout.
LineReturns(w) ==
    /\ worker[w].state = "waiting"
    /\ worker[w].elapsed = line_duration[worker[w].line]
    /\ worker[w].elapsed <= line_timeout_sec
    /\ result_list' = Append(result_list, ExecLine(worker[w].line))
    /\ worker' = [worker EXCEPT ![w] = IdleWorker]
    /\ UNCHANGED <<batchvars, pool_pc, task_queue, terminated, outputs>>
    /\ UNCHANGED notpool

\* No result within line_timeout_sec: the process is terminated and a
\* synthetic failed result is recorded; the worker goes on with a new process.
LineTimeout(w) ==
    /\ worker[w].state = "waiting"
    /\ worker[w].elapsed = line_timeout_sec
    /\ line_duration[worker[w].line] > line_timeout_sec
    /\ terminated' = terminated \cup {worker[w].line}
    /\ result_list' = Append(result_list, TimeoutLineResult(worker[w].line))
    /\ worker' = [worker EXCEPT ![w] = IdleWorker]
    /\ UNCHANGED <<batchvars, pool_pc, task_queue, outputs>>
    /\ UNCHANGED notpool

\* A worker that finds the task queue empty ends.
WorkerExit(w) ==
    /\ pool_pc = "running"
    /\ worker[w].state = "idle"
    /\ task_queue = <<>>
    /\ worker' = [worker EXCEPT ![w].state = "exited"]
    /\ UNCHANGED <<batchvars, pool_pc, task_queue, terminated, result_list, outputs>>
    /\ UNCHANGED notpool

\* run returns result_list once every worker has ended.
PoolReturn ==
    /\ pool_pc = "running"
    /\ \A w \in Processes : worker[w].state \in {"exited", "unused"}
    /\ pool_pc' = "returned"
    /\ UNCHANGED <<batchvars, task_queue, worker, terminated, result_list, outputs>>
    /\ UNCHANGED notpool

\* The batch boundary: the results are emitted sorted by line_number.
EmitResults ==
    /\ pool_pc = "returned"
    /\ outputs' = SortByLineNumber(result_list)
    /\ pool_pc' = "emitted"
    /\ UNCHANGED <<batchvars, task_queue, worker, terminated, result_list>>
    /\ UNCHANGED notpool

\* ------------------------------------------------------- specifications
InitRun ==
    /\ pending_nodes = Nodes
    /\ completed_nodes_outputs = <<>>
    /\ bypassed_nodes = {}
    /\ pc = "start"
    /\ future_to_node = {}
    /\ future = [n \in Nodes |-> NoFuture]
    /\ raised = NoException
    /\ dag_manager_calls = {}
    /\ run_id = 1
    /\ cache = {}
    /\ run_infos = [n \in Nodes |-> NoRunInfo]
    /\ task = [n \in Nodes |-> NoTask]
    /\ tool_calls = [n \in Nodes |-> 0]

\* The pool before run is called.
InitPoolIdle ==
    /\ pool_pc = "init"
    /\ task_queue = <<>>
    /\ worker = [w \in Processes |-> [IdleWorker EXCEPT !.state = "unused"]]
    /\ terminated = {}
    /\ result_list = <<>>
    /\ outputs = <<>>

\* No batch: the scheduler is looked at alone.
InitNoBatch ==
    /\ line_duration = [l \in Lines |-> 1]
    /\ line_outcome = [l \in Lines |-> "Completed"]
    /\ line_timeout_sec = 1
    /\ n_process = 1
    /\ InitPoolIdle

\* No node run id has been generated.
InitIdsIdle ==
    /\ flow_run_name = <<"r">>
    /\ aggregation = <<>>
    /\ node_run_ids = <<>>

\* No run has been submitted.
InitRunsIdle ==
    /\ orm_runs = <<>>
    /\ exception_json = <<>>
    /\ batch_running = {}
    /\ last_op = [op |-> "none", name |-> "", error |-> "", before |-> <<>>,
                  result |-> <<>>]
    /\ op_count = 0

\* Nothing is persisted.
InitStorageIdle ==
    /\ batch_size = 1
    /\ flow_run_status = <<>>
    /\ flow_todo = {}
    /\ node_todo = {}
    /\ writer = <<>>
    /\ flow_artifacts = <<>>
    /\ node_artifacts = <<>>
    /\ file_lock = <<>>
    /\ persist_result = <<>>

\* No inputs and outputs of a batch.
InitIoIdle ==
    /\ line_output = <<>>
    /\ sdk_files = <<>>
    /\ loaded = <<>>

\* No batch inputs.
InitInputsIdle ==
    /\ input_dicts = <<>>
    /\ inputs_mapping = <<>>
    /\ batch_inputs = <<>>
    /\ lines_run = {}

\* No batch is fed to the pool.
InitFeedIdle ==
    /\ batch_status = "NotStarted"
    /\ unfed = <<>>
    /\ cancel = [signalled |-> FALSE, in_flight |-> {}]

\* stream has not been called.
InitStreamIdle ==
    /\ stream_pc = "idle"
    /\ stream_args = <<>>
    /\ stream_run = <<>>
    /\ stream_out = <<>>
    /\ stream_error = <<>>

\* No tool call is traced.
InitTraceIdle ==
    /\ pop_output = <<>>
    /\ last_trace = <<>>
    /\ source_rest = <<>>
    /\ proxy_items = <<>>
    /\ generator = "none"
    /\ received = <<>>

\* No configuration is set and no output path is generated.
InitConfigIdle ==
    /\ config = <<>>
    /\ config_op = <<>>
    /\ output_path = <<>>

\* No tracer is active.
InitTracingIdle ==
    /\ tracer = <<>>
    /\ tracer_op = <<>>
    /\ trace_calls = [push |-> 0, pop |-> 0]

\* No flow of many nodes is executed.
InitWideIdle ==
    /\ configured = 1
    /\ queued = 0
    /\ executing = 0
    /\ done = 0

\* invoke_tool is not looked at statement by statement.
InitInvokeIdle ==
    /\ inv_pc = "idle"
    /\ inv_call = <<>>
    /\ inv_info = <<>>
    /\ inv_clock = 0
    /\ inv_ignored = 0
    /\ inv_exception = FALSE

\* Neither stream nor the tracer nor the statements of invoke_tool are
\* looked at.
InitLastIdle ==
    /\ InitConfigIdle
    /\ InitTracingIdle
    /\ InitWideIdle
    /\ InitStreamIdle
    /\ InitTraceIdle
    /\ InitInvokeIdle

InitLaterIdle ==
    /\ InitIoIdle
    /\ InitInputsIdle
    /\ InitFeedIdle
    /\ InitLastIdle

\* What the specifications of the line executor and of the pool leave idle.
InitRest ==
    /\ InitIdsIdle
    /\ InitRunsIdle
    /\ InitStorageIdle
    /\ InitLaterIdle

\* No line is executed: one flow without references, conditions or cache.
InitLineIdle ==
    /\ deps = [n \in Nodes |-> {}]
    /\ activate = [n \in Nodes |-> NoActivate]
    /\ enable_cache = [n \in Nodes |-> FALSE]
    /\ tool = [n \in Nodes |-> PlainTool]
    /\ flow_inputs = 0
    /\ node_concurrency = 1
    /\ InitRun

AcyclicDeps == {d \in [Nodes -> SUBSET Nodes] : \A n \in Nodes : d[n] \subseteq 1..(n - 1)}

Activations ==
    {a \in [Nodes -> UNION {ActivateChoices(n) : n \in Nodes}] :
        /\ \A n \in Nodes : a[n] \in ActivateChoices(n)
        /\ Cardinality({n \in Nodes : a[n] # NoActivate}) <= MaxActivate}

\* Scheduling: every acyclic flow over Nodes, with activate conditions and
\* failing tools, no cache.
InitSched ==
    /\ deps \in AcyclicDeps
    /\ activate \in Activations
    /\ enable_cache = [n \in Nodes |-> FALSE]
    /\ tool \in [Nodes -> {t \in ToolKinds : ~t.coroutine /\ t.hashable}]
    /\ flow_inputs \in Values
    /\ node_concurrency \in 1..MaxConcurrency
    /\ InitRun
    /\ InitNoBatch
    /\ InitRest

\* Caching: every acyclic flow over Nodes, every tool kind and enable_cache
\* flag, no activate conditions.  The hashable flag is read only through
\* enable_cache, so a node without enable_cache is drawn with a hashable tool.
InitCache ==
    /\ deps \in AcyclicDeps
    /\ activate = [n \in Nodes |-> NoActivate]
    /\ enable_cache \in [Nodes -> BOOLEAN]
    /\ tool \in [Nodes -> ToolKinds]
    /\ \A n \in Nodes : ~enable_cache[n] => tool[n].hashable
    /\ Cardinality({n \in Nodes : tool[n].raises}) <= MaxRaising
    /\ flow_inputs = 0
    /\ node_concurrency = MaxConcurrency
    /\ InitRun
    /\ InitNoBatch
    /\ InitRest

\* One execution of a line.
NextLine ==
    \/ Execute
    \/ \E n \in Nodes : StartTask(n)
    \/ \E n \in Nodes : FinishTask(n)
    \/ WaitFutures
    \/ ExceptCancel
    \/ Raise
    \/ Return

\* The line is executed again and again on the same cache.
Next ==
    \/ NextLine
    \/ NextRun

\* A batch: every duration and outcome of every line, every timeout and
\* worker count; one flow without conditions or cache behind exec_line.
InitPool ==
    /\ line_duration \in [Lines -> 1..MaxDuration]
    /\ line_outcome \in [Lines -> {"Completed", "UserError", "SystemError"}]
    /\ line_timeout_sec \in 1..MaxTimeoutSec
    /\ n_process \in 1..MaxProcesses
    /\ InitPoolIdle
    /\ deps = [n \in Nodes |-> {}]
    /\ activate = [n \in Nodes |-> NoActivate]
    /\ enable_cache = [n \in Nodes |-> FALSE]
    /\ tool = [n \in Nodes |-> PlainTool]
    /\ flow_inputs = 0
    /\ node_concurrency = 1
    /\ InitRun
    /\ InitRest

NextPool ==
    \/ PoolRun
    \/ \E w \in Processes : TakeLine(w)
    \/ \E w \in Processes : Tick(w)
    \/ \E w \in Processes : LineReturns(w)
    \/ \E w \in Processes : LineTimeout(w)
    \/ \E w \in Processes : WorkerExit(w)
    \/ PoolReturn
    \/ EmitResults

Spec == InitSched /\ [][NextLine]_vars
SpecCache == InitCache /\ [][Next]_vars
SpecPool == InitPool /\ [][NextPool]_vars

\* ------------------------------------------------------ reference semantics
\* The outputs of the flow computed one node at a time in topological order,
\* with no scheduler: node k is bypassed or its tool is applied to the
\* outputs of the nodes before it.
RECURSIVE Evaluate(_)
Evaluate(k) ==
    IF k = 0 THEN [comp |-> <<>>, byp |-> {}]
    ELSE LET prev == Evaluate(k - 1)
         IN IF IsNodeBypassable(k, prev.comp, prev.byp)
            THEN [comp |-> prev.comp, byp |-> prev.byp \cup {k}]
            ELSE [comp |-> CompleteNodes(prev.comp,
                              [n \in {k} |-> ToolFn(k,
                                  [m \in deps[k] |->
                                      ResolvedOutput(m, prev.comp, prev.byp)])]),
                  byp |-> prev.byp]

ExpectedOutputs ==
    LET e == Evaluate(NumNodes)
    IN [n \in Nodes |-> IF n \in e.byp THEN None ELSE e.comp[n]]

\* ------------------------------------------------------------------ claims

\* C1: for an acyclic flow with deterministic tools, when execute returns, the
\* node-to-output map it returns is the one the flow's definition and inputs
\* determine, whatever the node_concurrency and whatever the order in which
\* ready nodes were dispatched and completed.
C1_OutputsIndependentOfSchedule ==
    pc = "returned" =>
        /\ DOMAIN completed_nodes_outputs = Nodes
        /\ \A n \in Nodes : completed_nodes_outputs[n] = ExpectedOutputs[n]

\* C1 witness: execute has returned with two worker threads, two nodes that
\* were ready together and a node that reads both.
C1_Witness ==
    /\ pc = "returned"
    /\ node_concurrency >= 2
    /\ \E a, b, c \in Nodes :
         /\ a # b
         /\ deps[a] = {} /\ deps[b] = {}
         /\ {a, b} \subseteq deps[c]
         /\ completed_nodes_outputs[a] # completed_nodes_outputs[b]
         /\ completed_nodes_outputs[c] # None

FailedFutures ==
    {n \in future_to_node : future[n].state = "finished" /\ future[n].exception}

\* execute has caught a tool's exception / has gone through its except branch.
ExceptionCaught ==
    pc \in {"except", "shutdown", "raised"} /\ raised.kind = "ToolExecutionError"
FuturesCancelled ==
    pc \in {"shutdown", "raised"} /\ raised.kind = "ToolExecutionError"

\* C5: when a node's tool raises, the scheduler submits no further node; once
\* its except branch has run no task is left that has not started and no
\* tool is started any more; control returns only when no worker task is in
\* flight; and the exception raised is that of a future that had failed when
\* the scheduler first collected a failed future.
C5_CancelOnException ==
    /\ [](ExceptionCaught => raised.node \in FailedFutures)
    /\ [](FuturesCancelled => \A n \in Nodes : future[n].state # "pending")
    /\ [](pc = "raised" => RunningTasks = {})
    /\ [][(ExceptionCaught /\ run_id' = run_id) =>
            /\ \A n \in Nodes :
                  future'[n].state = "pending" => future[n].state = "pending"
            /\ future_to_node' = future_to_node
            /\ raised' = raised]_vars
    /\ [][(FuturesCancelled /\ run_id' = run_id) => tool_calls' = tool_calls]_vars
    /\ [][(pc = "loop" /\ FailedFutures # {} /\ <<pc, dagvars, future_to_node>>' #
                <<pc, dagvars, future_to_node>>) =>
            /\ pc' = "except"
            /\ raised'.kind = "ToolExecutionError"
            /\ raised'.node \in FailedFutures]_vars

\* C5 witness: execute has raised a tool's exception after cancelling a task
\* that had not started and waiting for one that was in flight.
C5_Witness ==
    /\ pc = "raised"
    /\ raised.kind = "ToolExecutionError"
    /\ \E n \in Nodes : future[n].state = "cancelled"
    /\ \E n \in future_to_node :
         /\ n # raised.node
         /\ future[n].state = "finished"
         /\ ~future[n].exception

Resolved(m) == m \in DOMAIN completed_nodes_outputs \/ m \in bypassed_nodes

\* C6: a node has been submitted to the worker pool, and its tool invoked,
\* only if every node it references is completed or bypassed.
C6_SubmittedAfterReferences ==
    \A n \in Nodes :
        (future[n].state # "none" \/ tool_calls[n] > 0) =>
            \A m \in NodeDependencies(n) : Resolved(m)

\* C6 witness: a node with a reference is running its tool while another
\* node is still waiting for it.
C6_Witness ==
    \E n, k \in Nodes :
        /\ deps[n] # {}
        /\ future[n].state = "running"
        /\ tool_calls[n] = 1
        /\ n \in deps[k]
        /\ k \in pending_nodes

BypassedByActivate(c) ==
    /\ c \in bypassed_nodes
    /\ HasActivate(c)
    /\ ConditionValue(c, completed_nodes_outputs, bypassed_nodes) # activate[c].is

PropagatesTo(c, d) ==
    /\ BypassedByActivate(c)
    /\ c \in deps[d]
    /\ ~(HasActivate(d) /\ activate[d].when = c)

\* C7: when C is bypassed because its activate condition is false and D's
\* input references C (not as the subject of D's activate), D's tool is never
\* invoked and D is never submitted; once D's references are all resolved D
\* is recorded as Bypassed with output None, and the returned map holds None
\* for both C and D.
C7_BypassPropagates ==
    \A c, d \in Nodes :
        PropagatesTo(c, d) =>
            /\ tool_calls[d] = 0
            /\ future[d].state = "none"
            /\ run_infos[c].status = "Bypassed" /\ run_infos[c].output = None
            /\ (pc # "start" /\ \A m \in NodeDependencies(d) : Resolved(m)) =>
                  /\ d \in bypassed_nodes
                  /\ run_infos[d].status = "Bypassed"
                  /\ run_infos[d].output = None
            /\ pc = "returned" =>
                  /\ completed_nodes_outputs[c] = None
                  /\ completed_nodes_outputs[d] = None

\* C7 witness: execute has returned, C was bypassed by its activate condition
\* on a completed node's output, and D, which reads C, is bypassed too.
C7_Witness ==
    /\ pc = "returned"
    /\ \E a, c, d \in Nodes :
         /\ activate[c].when = a
         /\ a \in DOMAIN completed_nodes_outputs /\ a \notin bypassed_nodes
         /\ PropagatesTo(c, d)
         /\ ~HasActivate(d)
         /\ run_infos[d].status = "Bypassed"

\* The cache entry recorded for node n's resolved inputs by an earlier run.
EarlierEntries(n) ==
    {e \in cache : /\ e.hash_id = <<n, flow_inputs, task[n].kwargs>>
                   /\ e.flow_run_id < run_id}

InvokeToolCalled(n) == future[n].state \in {"running", "finished"}

\* C8: for a node with enable_cache whose cache info is non-null and whose
\* fingerprint has an entry recorded by an earlier run, invoke_tool does not
\* invoke the tool, records the entry's run id and flow run id as
\* cached_run_id and cached_flow_run_id, and finishes the node run as
\* Completed with the entry's result, which it returns.
C8_CacheHitReusesResult ==
    \A n \in Nodes :
        (/\ InvokeToolCalled(n)
         /\ ~tool[n].coroutine
         /\ enable_cache[n]
         /\ tool[n].hashable) =>
            \A e \in EarlierEntries(n) :
                /\ tool_calls[n] = 0
                /\ run_infos[n].cached_run_id = e.run_id
                /\ run_infos[n].cached_flow_run_id = e.flow_run_id
                /\ future[n].state = "finished" =>
                      /\ ~future[n].exception
                      /\ future[n].result = e.result
                      /\ run_infos[n].status = "Completed"
                      /\ run_infos[n].output = e.result

\* C8 witness: in the second run invoke_tool has finished a node from the
\* entry the first run recorded for it, and the node reads another node.
C8_Witness ==
    \E n \in Nodes :
        /\ run_id = 2
        /\ deps[n] # {}
        /\ ~tool[n].coroutine /\ enable_cache[n] /\ tool[n].hashable
        /\ future[n].state = "finished"
        /\ EarlierEntries(n) # {}
        /\ run_infos[n].cached_flow_run_id = 1

\* invoke_tool finishes for node n after a cache lookup that missed.
MissHandled(n) ==
    /\ future[n].state = "running"
    /\ future'[n].state = "finished"
    /\ ~tool[n].coroutine
    /\ enable_cache[n]
    /\ tool[n].hashable
    /\ ~task[n].hit_cache

OwnEntry(n, result) ==
    [hash_id |-> <<n, flow_inputs, task[n].kwargs>>, run_id |-> GenerateNodeRunId(n),
     flow_run_id |-> run_id, result |-> result]

C10_SecondRunAllHits ==
    (/\ run_id = 2
     /\ \A n \in Nodes : enable_cache[n] /\ tool[n].hashable /\ ~tool[n].raises) =>
        \A n \in Nodes :
            /\ tool_calls[n] = 0
            /\ InvokeToolCalled(n) => task[n].hit_cache

\* The same statement for flows without coroutine tools.
SecondRunAllHitsSync ==
    (/\ run_id = 2
     /\ \A n \in Nodes : /\ enable_cache[n] /\ tool[n].hashable
                         /\ ~tool[n].raises /\ ~tool[n].coroutine) =>
        \A n \in Nodes :
            /\ tool_calls[n] = 0
            /\ InvokeToolCalled(n) => task[n].hit_cache

\* ------------------------------------------------------------ batch claims
ResultsOf(l) == {i \in 1..Len(result_list) : result_list[i].line_number = l}

TimesOut(l) == line_duration[l] > line_timeout_sec

\* What line l yields, from the batch alone.
ExpectedLineResult(l) ==
    IF TimesOut(l)
    THEN [line_number |-> l, status |-> "Failed",
          error |-> [code |-> "UserError",
                     message |-> <<"Line", l, "execution timeout for exceeding",
                                   line_timeout_sec, "seconds">>]]
    ELSE IF line_outcome[l] = "Completed"
    THEN [line_number |-> l, status |-> "Completed", error |-> NoError]
    ELSE [line_number |-> l, status |-> "Failed",
          error |-> [code |-> line_outcome[l], message |-> <<"error of line", l>>]]

\* C2: the results emitted at the batch boundary hold exactly one result per
\* line, in ascending line_number order, and each is the result the line's
\* inputs determine: the same for every worker count and completion order.
C2_ResultsOrderedOnePerLine ==
    pool_pc = "emitted" =>
        /\ Len(outputs) = NumLines
        /\ \A i \in 1..NumLines : outputs[i] = ExpectedLineResult(i - 1)

\* C2 witness: with two workers the lines completed out of line order and the
\* batch has emitted its results.
C2_Witness ==
    /\ pool_pc = "emitted"
    /\ n_process >= 2
    /\ \E i, j \in 1..Len(result_list) :
         i < j /\ result_list[i].line_number > result_list[j].line_number

\* C3: a line whose worker does not return within line_timeout_sec gets its
\* worker terminated and yields a Failed result with code UserError and the
\* message "Line {n} execution timeout for exceeding {t} seconds"; when run
\* returns every line has exactly one result.
C3_TimeoutYieldsFailedResult ==
    /\ \A l \in Lines : Cardinality(ResultsOf(l)) <= 1
    /\ \A i \in 1..Len(result_list) :
         LET r == result_list[i]
         IN TimesOut(r.line_number) =>
              /\ r.line_number \in terminated
              /\ r.status = "Failed"
              /\ r.error.code = "UserError"
              /\ r.error.message = <<"Line", r.line_number,
                                     "execution timeout for exceeding",
                                     line_timeout_sec, "seconds">>
    /\ pool_pc \in {"returned", "emitted"} =>
         \A l \in Lines : Cardinality(ResultsOf(l)) = 1

\* C3 witness: run has returned, a line timed out and a line taken after it
\* by the same pool completed.
C3_Witness ==
    /\ pool_pc = "returned"
    /\ \E i, j \in 1..Len(result_list) :
         /\ i < j
         /\ result_list[i].line_number < result_list[j].line_number
         /\ TimesOut(result_list[i].line_number)
         /\ result_list[j].status = "Completed"

Raises(l) == line_outcome[l] # "Completed" /\ ~TimesOut(l)

\* C4: a line for which exec_line raises yields a Failed result carrying the
\* exception's message and code, and when run returns every line of the
\* batch has its result.
C4_LineFailureIsolated ==
    /\ \A i \in 1..Len(result_list) :
         LET r == result_list[i]
         IN Raises(r.line_number) =>
              /\ r.status = "Failed"
              /\ r.error.code = line_outcome[r.line_number]
              /\ r.error.message = <<"error of line", r.line_number>>
    /\ pool_pc \in {"returned", "emitted"} =>
         \A l \in Lines : Cardinality(ResultsOf(l)) = 1

\* C4 witness: run has returned, exec_line raised for the first line and a
\* later line completed.
C4_Witness ==
    /\ pool_pc = "returned"
    /\ Raises(0)
    /\ \E l \in Lines : l # 0 /\ line_outcome[l] = "Completed" /\ ~TimesOut(l)
    /\ \E l \in Lines : l # 0 /\ Raises(l) /\ line_outcome[l] # line_outcome[0]

\* ------------------------------------------------- cache opt-in (C11)
\* The entries an earlier run (flow run id 0) of the same flow with the same
\* inputs recorded for the nodes S, each with enable_cache set at that time.
EarlierRunEntries(S) ==
    {[hash_id |-> <<n, flow_inputs, [m \in deps[n] |-> ExpectedOutputs[m]]>>,
      run_id |-> <<0, n>>, flow_run_id |-> 0, result |-> ExpectedOutputs[n]] :
        n \in S}

\* The nodes an earlier run finished: those before the first raising tool.
FinishedEarlier == {n \in Nodes : \A m \in 1..n : ~tool[m].raises}

\* One run of a flow on a cache that is empty or holds the entries of an
\* earlier run; every enable_cache flag, synchronous and coroutine tools.
InitOptIn ==
    /\ deps \in AcyclicDeps
    /\ activate = [n \in Nodes |-> NoActivate]
    /\ enable_cache \in [Nodes -> BOOLEAN]
    /\ tool \in [Nodes -> {t \in ToolKinds : t.hashable}]
    /\ Cardinality({n \in Nodes : tool[n].raises}) <= MaxRaising
    /\ flow_inputs = 0
    /\ node_concurrency = MaxConcurrency
    /\ pending_nodes = Nodes
    /\ completed_nodes_outputs = <<>>
    /\ bypassed_nodes = {}
    /\ pc = "start"
    /\ future_to_node = {}
    /\ future = [n \in Nodes |-> NoFuture]
    /\ raised = NoException
    /\ dag_manager_calls = {}
    /\ run_id = 1
    /\ cache \in {{}, EarlierRunEntries(FinishedEarlier)}
    /\ run_infos = [n \in Nodes |-> NoRunInfo]
    /\ task = [n \in Nodes |-> NoTask]
    /\ tool_calls = [n \in Nodes |-> 0]
    /\ InitNoBatch
    /\ InitRest

SpecOptIn == InitOptIn /\ [][NextLine]_vars

\* C11: for a node whose enable_cache flag is false, whatever the cache
\* holds, invoke_tool takes no result from the cache (no hit, no cached run
\* id on the node run), always invokes the tool, and records nothing in the
\* cache when it finishes.
C11_CacheIsOptIn ==
    /\ [](\A n \in Nodes :
            (~enable_cache[n] /\ ~tool[n].coroutine /\ InvokeToolCalled(n)) =>
                /\ ~task[n].hit_cache
                /\ tool_calls[n] = 1
                /\ run_infos[n].cached_run_id = <<>>
                /\ run_infos[n].cached_flow_run_id = 0)
    /\ [][\A n \in Nodes :
            (/\ ~enable_cache[n] /\ ~tool[n].coroutine
             /\ future[n].state = "running"
             /\ future'[n].state = "finished") => cache' = cache]_vars

\* C11 witness: invoke_tool has finished a node without enable_cache by
\* invoking its tool while the cache held an entry for the node's inputs.
C11_Witness ==
    \E n \in Nodes :
        /\ ~enable_cache[n] /\ ~tool[n].coroutine
        /\ deps[n] # {}
        /\ future[n].state = "finished"
        /\ tool_calls[n] = 1
        /\ \E e \in cache : e.hash_id = <<n, flow_inputs, task[n].kwargs>>

\* ------------------------------------------------- node run ids (C12)
\* Strings are sequences of characters.
Underscore == <<"_">>
ReduceSuffix == <<"r", "e", "d", "u", "c", "e">>

\* str(int) of a line number: its decimal digits.
RECURSIVE FormatInt(_)
FormatInt(i) ==
    LET digit == <<"0", "1", "2", "3", "4", "5", "6", "7", "8", "9">>
    IN IF i < 10 THEN <<digit[i + 1]>>
       ELSE FormatInt(i \div 10) \o <<digit[(i % 10) + 1]>>

\* str(uuid.uuid4()): hexadecimal groups joined by hyphens.
Uuid4(k) == FormatInt(k) \o <<"-">> \o FormatInt(k)
Uuids == {Uuid4(k) : k \in 1..NumUuids}

\* Node names: identifiers, some ending like a line number or like "reduce".
NodeNames ==
    {<<"a">>, <<"a", "_", "1">>, <<"a", "_", "1", "_", "0">>,
     <<"a", "_">> \o ReduceSuffix, ReduceSuffix}
FlowRunNames == {<<"r">>, <<"r", "_", "a">>}
LineNumbers == 0..MaxLineNumber

\* A slip in _generate_node_run_id: every node takes the reduce branch.
GenerateNodeRunIdAlwaysReduce(node, line_number, uuid) ==
    flow_run_name \o Underscore \o node \o Underscore \o ReduceSuffix

\* _generate_node_run_id on the strings: the f-strings of its three returns.
GenerateNodeRunIdString(node, line_number, uuid) ==
    IF aggregation[node]
    THEN flow_run_name \o Underscore \o node \o Underscore \o ReduceSuffix
    ELSE IF line_number = None
    THEN flow_run_name \o Underscore \o node \o Underscore \o uuid
    ELSE flow_run_name \o Underscore \o node \o Underscore \o FormatInt(line_number)

\* _prepare_node_run / bypass_node of the context of line `line_number` (None:
\* no line number) for `node`: the node run is given its generated id.  An
\* aggregation node runs in a context without line number.
PrepareNodeRunId(node, line_number) ==
    /\ Cardinality(DOMAIN node_run_ids) < MaxRunIds
    /\ <<line_number, node>> \notin DOMAIN node_run_ids
    /\ aggregation[node] => line_number = None
    /\ \E uuid \in Uuids :
         node_run_ids' = [p \in DOMAIN node_run_ids \cup {<<line_number, node>>} |->
                            IF p = <<line_number, node>>
                            THEN GenerateNodeRunIdString(node, line_number, uuid)
                            ELSE node_run_ids[p]]
    /\ UNCHANGED <<flow_run_name, aggregation>>
    /\ UNCHANGED <<flowvars, dagvars, schedvars, ctxvars, poolvars, runvars, storevars, latervars>>

InitRunIds ==
    /\ flow_run_name \in FlowRunNames
    /\ aggregation \in [NodeNames -> BOOLEAN]
    /\ node_run_ids = <<>>
    /\ InitLineIdle
    /\ InitNoBatch
    /\ InitRunsIdle
    /\ InitStorageIdle
    /\ InitLaterIdle

NextRunIds ==
    \E node \in NodeNames, line_number \in LineNumbers \cup {None} :
        PrepareNodeRunId(node, line_number)

SpecRunIds == InitRunIds /\ [][NextRunIds]_vars

\* C12: within one flow run the id of a node run is
\* "{flow_run_id}_{node}_{line_number}" for a non-aggregation node with a
\* line number and "{flow_run_id}_{node}_reduce" for an aggregation node,
\* and two distinct (line, node) pairs never have the same id.
C12_RunIdSchemaUnique ==
    /\ \A p \in DOMAIN node_run_ids :
         LET line_number == p[1]
             node == p[2]
             id == node_run_ids[p]
             head == Len(flow_run_name) + 1 + Len(node) + 1
         IN /\ SubSeq(id, 1, head) = flow_run_name \o <<"_">> \o node \o <<"_">>
            /\ aggregation[node] =>
                 SubSeq(id, head + 1, Len(id)) = <<"r", "e", "d", "u", "c", "e">>
            /\ (~aggregation[node] /\ line_number # None) =>
                 /\ Len(id) - head = (IF line_number < 10 THEN 1 ELSE 2)
                 /\ \A i \in (head + 1)..Len(id) :
                      id[i] \in {"0", "1", "2", "3", "4", "5", "6", "7", "8", "9"}
                 /\ id = flow_run_name \o <<"_">> \o node \o <<"_">> \o FormatInt(line_number)
    /\ \A p, q \in DOMAIN node_run_ids :
         p # q => node_run_ids[p] # node_run_ids[q]

\* C12 witness: two node runs of one flow run whose node names and line
\* numbers read alike ("a_1" on line 0, "a" on line 10), and an aggregation
\* node run next to a node run on a line.
C12_Witness ==
    \/ /\ <<0, <<"a", "_", "1">>>> \in DOMAIN node_run_ids
       /\ <<10, <<"a">>>> \in DOMAIN node_run_ids
    \/ /\ <<None, <<"a">>>> \in DOMAIN node_run_ids
       /\ aggregation[<<"a">>]
       /\ <<0, <<"a", "_">> \o ReduceSuffix>> \in DOMAIN node_run_ids

\* --------------------------------------------- run records (C13 .. C17)
RunNames == {"run_a", "run_b"}
UnknownRunName == "not_exist"
NoParent == ""
DisplayNames == {"", "renamed"}
NoChange == "(none)"
\* Statuses an update is called with.
StatusInputs == {"Running", "Completed", "Failed", "Canceled"}
TerminalStatuses == {"Completed", "Failed", "Canceled"}
BatchLines == 0..(NumBatchLines - 1)

NoOp == [op |-> "none", name |-> "", error |-> "", before |-> <<>>, result |-> <<>>]

\* ---- the ORM record of a run
\* dump: the record a new run is stored as.
OrmDump(name, parent) ==
    [name |-> name, status |-> "Running", archived |-> FALSE,
     display_name |-> "", run |-> parent]

\* archive / restore: set or clear the archived flag.
OrmArchive(obj) == [obj EXCEPT !.archived = TRUE]
OrmRestore(obj) == [obj EXCEPT !.archived = FALSE]

\* update: assign the fields that are given.
OrmUpdate(obj, display_name, status) ==
    [obj EXCEPT !.display_name = IF display_name = NoChange THEN @ ELSE display_name,
                !.status = IF status = NoChange THEN @ ELSE status]

\* Run._from_orm_object: the entity built from a record.  is_archived is
\* not handed to the constructor, which then takes its default.
FromOrmObject(obj) ==
    [name |-> obj.name, status |-> obj.status, display_name |-> obj.display_name,
     run |-> obj.run, is_archived |-> FALSE]

\* ---- RunOperations
NotRuns == <<flowvars, dagvars, schedvars, ctxvars, poolvars, idvars, storevars, latervars>>

\* One more operation of a client.
CountOp ==
    /\ op_count < MaxOps
    /\ op_count' = op_count + 1
    /\ UNCHANGED NotRuns

\* What the operation before this one was, kept for the record of the
\* sequences "create, then get" and "archive, then restore" of one name.
PreviousCreate(name) ==
    IF last_op.op = "create" /\ last_op.name = name
    THEN [error |-> last_op.error, existed |-> last_op.before.existed]
    ELSE <<>>
PreviousArchive(name) ==
    IF last_op.op = "archive" /\ last_op.name = name /\ last_op.error = ""
    THEN last_op.before
    ELSE <<>>

\* get
Get(name) ==
    /\ CountOp
    /\ last_op' = IF name \in DOMAIN orm_runs
                  THEN [op |-> "get", name |-> name, error |-> "",
                        before |-> PreviousCreate(name),
                        result |-> FromOrmObject(orm_runs[name])]
                  ELSE [op |-> "get", name |-> name, error |-> "RunNotFoundError",
                        before |-> PreviousCreate(name), result |-> <<>>]
    /\ UNCHANGED <<orm_runs, exception_json, batch_running>>

\* The records after ORMRun.get(name).archive() / .restore() / .update(...).
RunsArchive(runs, name) == [runs EXCEPT ![name] = OrmArchive(@)]
RunsRestoreArchives(runs, name) == [runs EXCEPT ![name] = OrmArchive(@)]
RunsRestore(runs, name) == [runs EXCEPT ![name] = OrmRestore(@)]
RunsUpdate(runs, name, display_name, status) ==
    [runs EXCEPT ![name] = OrmUpdate(@, display_name, status)]

\* An operation on the record of `name` followed by "return self.get(name)".
Operate(op, name, runs) ==
    IF name \in DOMAIN orm_runs
    THEN /\ orm_runs' = runs
         /\ last_op' = [op |-> op, name |-> name, error |-> "",
                        before |-> IF op = "archive" THEN orm_runs[name]
                                   ELSE IF op = "restore" THEN PreviousArchive(name)
                                   ELSE <<>>,
                        result |-> FromOrmObject(runs[name])]
    ELSE /\ orm_runs' = orm_runs
         /\ last_op' = [op |-> op, name |-> name, error |-> "RunNotFoundError",
                        before |-> <<>>, result |-> <<>>]

Archive(name) ==
    /\ CountOp
    /\ Operate("archive", name, RunsArchive(orm_runs, name))
    /\ UNCHANGED <<exception_json, batch_running>>

Restore(name) ==
    /\ CountOp
    /\ Operate("restore", name, RunsRestore(orm_runs, name))
    /\ UNCHANGED <<exception_json, batch_running>>

\* update: display_name and, through kwargs, status.
Update(name, display_name, status) ==
    /\ CountOp
    /\ Operate("update", name, RunsUpdate(orm_runs, name, display_name, status))
    /\ UNCHANGED <<exception_json, batch_running>>
\* ---- the batch of a submitted run and its exception.json
\* The line error of a failed line, as error_list holds it.
LineError(l) ==
    [line_number |-> l,
     error |-> [message |-> <<"error of line", l>>, code |-> "UserError"]]

RECURSIVE ErrorList(_)
\* error_summary.error_list: the errors of the failed lines by line number.
ErrorList(failed) ==
    IF failed = {} THEN <<>>
    ELSE LET l == CHOOSE x \in failed : \A y \in failed : x <= y
         IN <<LineError(l)>> \o ErrorList(failed \ {l})

NoBatchResult == <<>>
\* The BatchResult of a batch whose lines `failed` failed.
BatchResult(failed) ==
    [failed_lines |-> Cardinality(failed), total_lines |-> NumBatchLines,
     error_list |-> ErrorList(failed)]

\* BulkRunException as the presenter writes it.
BulkRunException(message, failed_lines, total_lines, errors) ==
    [message |-> message, failed_lines |-> failed_lines,
     total_lines |-> total_lines, errors |-> errors]

\* A slip in dump_exception: only the first line error is kept.
DumpExceptionTotalOnly(files, name, exception, batch_result) ==
    LET errors == IF batch_result # NoBatchResult THEN batch_result.error_list ELSE <<>>
    IN IF errors # <<>>
       THEN [n \in DOMAIN files \cup {name} |->
               IF n = name
               THEN BulkRunException(errors[1].error.message, batch_result.total_lines,
                                     batch_result.total_lines, <<errors[1]>>)
               ELSE files[n]]
       ELSE files

\* A slip in dump_exception: an exception of the batch itself is not dumped.
DumpExceptionLineErrorsOnly(files, name, exception, batch_result) ==
    LET errors == IF batch_result # NoBatchResult THEN batch_result.error_list ELSE <<>>
    IN IF errors # <<>>
       THEN [n \in DOMAIN files \cup {name} |->
               IF n = name
               THEN BulkRunException(errors[1].error.message, batch_result.failed_lines,
                                     batch_result.total_lines, errors)
               ELSE files[n]]
       ELSE files

\* dump_exception: the exception.json files after the call.  Nothing is
\* written when no line failed and no user error was raised.
DumpException(files, name, exception, batch_result) ==
    LET errors == IF batch_result # NoBatchResult THEN batch_result.error_list ELSE <<>>
        written(message) ==
            [n \in DOMAIN files \cup {name} |->
               IF n = name
               THEN BulkRunException(
                        message,
                        IF batch_result # NoBatchResult THEN batch_result.failed_lines
                        ELSE "unknown",
                        IF batch_result # NoBatchResult THEN batch_result.total_lines
                        ELSE "unknown",
                        errors)
               ELSE files[n]]
    IN IF errors # <<>> THEN written(errors[1].error.message)
       ELSE IF exception = "UserError" THEN written(<<"str", exception>>)
       ELSE files

\* load_exception: the content of exception.json, or {}.
LoadException(name) ==
    IF name \in DOMAIN exception_json THEN exception_json[name] ELSE <<>>

\* Run._to_dict of a local run: "error" is present iff exception.json has
\* content.
ToDict(run) ==
    LET result == [name |-> run.name, status |-> run.status,
                   display_name |-> run.display_name]
        exception_dict == LoadException(run.name)
    IN IF exception_dict # <<>>
       THEN [k \in DOMAIN result \cup {"error"} |->
               IF k = "error" THEN exception_dict ELSE result[k]]
       ELSE result

\* A slip in _check_run_status_is_completed: every status passes.
CheckRunStatusAlwaysOk(run) == ""

\* Run._check_run_status_is_completed
CheckRunStatusIsCompleted(run) ==
    IF run.status # "Completed" THEN "InvalidRunStatusError" ELSE ""

\* A slip in the submission: the name is not checked against the records.
SubmitErrorNameUnchecked(name, parent) ==
    IF parent # NoParent /\ parent \notin DOMAIN orm_runs THEN "RunNotFoundError"
    ELSE IF /\ parent # NoParent
            /\ CheckRunStatusIsCompleted(FromOrmObject(orm_runs[parent])) # ""
    THEN CheckRunStatusIsCompleted(FromOrmObject(orm_runs[parent]))
    ELSE ""

\* The submission up to the creation of the record: the referenced run is
\* resolved and must be completed, and the name must be new.
SubmitError(name, parent) ==
    IF parent # NoParent /\ parent \notin DOMAIN orm_runs THEN "RunNotFoundError"
    ELSE IF /\ parent # NoParent
            /\ CheckRunStatusIsCompleted(FromOrmObject(orm_runs[parent])) # ""
    THEN CheckRunStatusIsCompleted(FromOrmObject(orm_runs[parent]))
    ELSE IF name \in DOMAIN orm_runs THEN "RunExistsError"
    ELSE ""

\* create_or_update: the run is submitted; its record is created when the
\* batch is about to be executed.
CreateOrUpdate(name, parent) ==
    LET error == SubmitError(name, parent)
    IN /\ CountOp
       /\ IF error = ""
          THEN /\ orm_runs' = [n \in DOMAIN orm_runs \cup {name} |->
                                 IF n = name THEN OrmDump(name, parent)
                                 ELSE orm_runs[n]]
               /\ batch_running' = batch_running \cup {name}
          ELSE UNCHANGED <<orm_runs, batch_running>>
       /\ last_op' = [op |-> "create", name |-> name, error |-> error,
                      before |-> [existed |-> name \in DOMAIN orm_runs],
                      result |-> parent]
       /\ UNCHANGED exception_json

\* The batch of a submitted run ends: the engine returned a result in which
\* the lines `failed` failed, or (exception # "none") it raised.  The
\* exception is dumped, then the run's status is updated.
BatchEnds(name, failed, exception) ==
    /\ name \in batch_running
    /\ exception # "none" => failed = {}
    /\ op_count' = op_count
    /\ UNCHANGED NotRuns
    /\ LET batch_result == IF exception = "none" THEN BatchResult(failed)
                           ELSE NoBatchResult
           status == IF exception = "none" THEN "Completed" ELSE "Failed"
       IN /\ exception_json' = DumpException(exception_json, name, exception, batch_result)
          /\ orm_runs' = RunsUpdate(orm_runs, name, NoChange, status)
          /\ last_op' = [op |-> "batch", name |-> name, error |-> "",
                         before |-> <<>>, result |-> batch_result]
    /\ batch_running' = batch_running \ {name}

InitRuns ==
    /\ InitRunsIdle
    /\ InitIdsIdle
    /\ InitLineIdle
    /\ InitNoBatch
    /\ InitStorageIdle
    /\ InitLaterIdle

NextRuns ==
    \/ \E name \in RunNames \cup {UnknownRunName} : Get(name)
    \/ \E name \in RunNames : Archive(name)
    \/ \E name \in RunNames : Restore(name)
    \/ \E name \in RunNames, display_name \in DisplayNames \cup {NoChange},
          status \in StatusInputs \cup {NoChange} :
            Update(name, display_name, status)
    \/ \E name \in RunNames, parent \in RunNames \cup {NoParent, UnknownRunName} :
            CreateOrUpdate(name, parent)
    \/ \E name \in RunNames, failed \in SUBSET BatchLines,
          exception \in {"none", "UserError", "SystemError"} :
            BatchEnds(name, failed, exception)

SpecRuns == InitRuns /\ [][NextRuns]_vars
\* C13: once the record of a run has a terminal status (Completed, Failed
\* or Canceled), no create, update, archive or restore changes the status.
C13_StatusMonotonic ==
    [][\A name \in DOMAIN orm_runs :
          orm_runs[name].status \in TerminalStatuses =>
              orm_runs'[name].status = orm_runs[name].status]_vars

\* archive and restore leave the status of every run as it is.
ArchiveRestoreKeepStatus ==
    [][last_op'.op \in {"archive", "restore"} /\ op_count' # op_count =>
          \A name \in DOMAIN orm_runs :
              orm_runs'[name].status = orm_runs[name].status]_vars

\* C14: for an existing run that is not archived, archive(name) followed by
\* restore(name) leaves the record as it was before the archive, with
\* is_archived false, and restore returns the run with is_archived false and
\* its other fields as they were.
C14_ArchiveRestoreRoundTrip ==
    (/\ last_op.op = "restore"
     /\ last_op.before # <<>>
     /\ ~last_op.before.archived) =>
        /\ last_op.error = ""
        /\ orm_runs[last_op.name] = last_op.before
        /\ ~orm_runs[last_op.name].archived
        /\ ~last_op.result.is_archived
        /\ last_op.result.status = last_op.before.status
        /\ last_op.result.display_name = last_op.before.display_name
        /\ last_op.result.run = last_op.before.run

\* C14 witness: a renamed, completed run has been archived and then
\* restored.
C14_Witness ==
    /\ last_op.op = "restore"
    /\ last_op.before # <<>>
    /\ ~last_op.before.archived
    /\ last_op.before.status = "Completed"
    /\ last_op.before.display_name = "renamed"

C16_ParentMustBeCompleted ==
    /\ [][(/\ last_op'.op = "create"
           /\ op_count' # op_count
           /\ last_op'.result # NoParent) =>
              LET parent == last_op'.result
              IN /\ parent \notin DOMAIN orm_runs =>
                      /\ last_op'.error = "RunNotFoundError"
                      /\ orm_runs' = orm_runs
                 /\ (parent \in DOMAIN orm_runs /\ orm_runs[parent].status # "Completed") =>
                      /\ last_op'.error # ""
                      /\ orm_runs' = orm_runs
                 /\ orm_runs' # orm_runs =>
                      /\ parent \in DOMAIN orm_runs
                      /\ orm_runs[parent].status = "Completed"]_vars
    /\ []((/\ last_op.op = "get"
           /\ last_op.before # <<>>
           /\ ~last_op.before.existed
           /\ last_op.before.error # "") => last_op.error = "RunNotFoundError")

\* C16 witness: after a failed submission that referenced a run with status
\* Failed, the get of the new name raised RunNotFoundError.
C16_Witness ==
    /\ last_op.op = "get"
    /\ last_op.before # <<>>
    /\ ~last_op.before.existed
    /\ last_op.before.error = "InvalidRunStatusError"
    /\ last_op.error = "RunNotFoundError"
    /\ \E parent \in DOMAIN orm_runs : orm_runs[parent].status = "Failed"

\* C17: when the batch of a run ends with every line failed, the run's
\* status is Completed, exception.json holds the BulkRunException with
\* failed_lines, total_lines, the first line error's message and the list of
\* the line errors, and the dictionary of the fetched run has it as "error".
C17_AllLinesFailedCompleted ==
    (/\ last_op.op = "batch"
     /\ last_op.result # NoBatchResult
     /\ last_op.result.failed_lines = last_op.result.total_lines) =>
        LET name == last_op.name
            run_dict == ToDict(FromOrmObject(orm_runs[name]))
        IN /\ orm_runs[name].status = "Completed"
           /\ name \in DOMAIN exception_json
           /\ exception_json[name].failed_lines = NumBatchLines
           /\ exception_json[name].total_lines = NumBatchLines
           /\ exception_json[name].message = <<"error of line", 0>>
           /\ Len(exception_json[name].errors) = NumBatchLines
           /\ \A i \in 1..NumBatchLines :
                /\ exception_json[name].errors[i].line_number = i - 1
                /\ exception_json[name].errors[i].error.message = <<"error of line", i - 1>>
           /\ "error" \in DOMAIN run_dict
           /\ run_dict["error"] = exception_json[name]
           /\ run_dict["status"] = "Completed"

\* C17 witness: the batch of a run has ended with all its lines failed.
C17_Witness ==
    /\ last_op.op = "batch"
    /\ last_op.result # NoBatchResult
    /\ last_op.result.failed_lines = NumBatchLines
    /\ last_op.result.failed_lines = last_op.result.total_lines
    /\ LoadException(last_op.name) # <<>>

\* ------------------------------------------- local storage (C18 - C20)
\* LocalStorageOperations.LINE_NUMBER_WIDTH
LINE_NUMBER_WIDTH == 9

\* str.zfill on the digits of a non-negative number.
ZFill(str, width) ==
    IF Len(str) >= width THEN str
    ELSE [i \in 1..(width - Len(str)) |-> "0"] \o str

Jsonl == <<".", "j", "s", "o", "n", "l">>

Writers == 1..NumWriters
StorageLines == 0..(NumStorageLines - 1)
StorageNodes == {<<"a">>, ReduceSuffix}
\* The line numbers of the node runs that are persisted: None for the run of
\* a reduce node.
NodeLineNumbers == {None, 0, 1}
\* The node runs of the run: one per line for a node of the lines, one
\* without line number for a reduce node.
NodeRuns ==
    {<<node, line_number>> \in StorageNodes \X NodeLineNumbers :
        (node = ReduceSuffix) <=> (line_number = None)}
FlowRunStatuses == {"Running", "Completed", "Failed"}
\* The name of the run whose output folder is written.
StorageRunName == <<"r", "u", "n">>

\* Status.is_terminated
IsTerminated(status) == status \in {"Completed", "Failed", "Bypassed", "Canceled"}

\* LineRunRecord.from_flow_run_info / NodeRunRecord.from_run_info
\* serialize(run_info): the run info as a JSON object.
SerializeFlowRunInfo(line_number) ==
    [index |-> line_number, status |-> flow_run_status[line_number]]

SerializeNodeRunInfo(node, line_number) ==
    [node |-> node, index |-> line_number, status |-> "Completed"]

LineRunRecordOf(line_number) ==
    [line_number |-> line_number, status |-> flow_run_status[line_number],
     run_info |-> SerializeFlowRunInfo(line_number)]

NodeRunRecordOf(node, line_number) ==
    [NodeName |-> node, line_number |-> line_number, status |-> "Completed",
     run_info |-> SerializeNodeRunInfo(node, line_number)]

\* A slip in persist_flow_run: every line is given the file of line 0.
FlowFileNameOfLineZero(line_number) ==
    ZFill(<<"0">>, LINE_NUMBER_WIDTH) \o Underscore
      \o ZFill(FormatInt(batch_size - 1), LINE_NUMBER_WIDTH) \o Jsonl

\* persist_flow_run: the file name of the block the line falls into.
FlowFileName(line_number) ==
    LET lower_bound == (line_number \div batch_size) * batch_size
        upper_bound == lower_bound + batch_size - 1
    IN ZFill(FormatInt(lower_bound), LINE_NUMBER_WIDTH) \o Underscore
         \o ZFill(FormatInt(upper_bound), LINE_NUMBER_WIDTH) \o Jsonl

\* persist_node_run: the file name of the node run; line 0 for no line number.
NodeFileName(line_number) ==
    LET line == IF line_number = None THEN 0 ELSE line_number
    IN ZFill(FormatInt(line), LINE_NUMBER_WIDTH) \o Jsonl

\* A slip in NodeRunRecord.dump: no file name is taken to need the lock.
NeedLockNever(name) == FALSE

\* NodeRunRecord.dump: path.name == filename_need_lock
NeedLock(name) == name = ZFill(<<"0">>, LINE_NUMBER_WIDTH) \o Jsonl

\* NodeRunRecord.dump: HOME_PROMPT_FLOW_DIR / "{run_name}.{NodeName}.lock"
FileLockPath(run_name, node) ==
    run_name \o <<".">> \o node \o <<".", "l", "o", "c", "k">>

IdleWriter ==
    [pc |-> "idle", kind |-> "none", call |-> <<>>, path |-> <<>>,
     record |-> <<>>, locked |-> FALSE, raised |-> FALSE]

\* f with f[k] = v
Put(f, k, v) == [x \in DOMAIN f \cup {k} |-> IF x = k THEN v ELSE f[x]]

NotStorage == <<flowvars, dagvars, schedvars, ctxvars, poolvars, idvars, runvars, latervars>>

\* persist_flow_run up to the call of LineRunRecord.dump: a line that is not
\* terminated is skipped.
PersistFlowRun(w, line_number) ==
    LET call == <<"flow", <<>>, line_number, 1>>
    IN /\ writer[w].pc = "idle"
       /\ line_number \in flow_todo
       /\ flow_todo' = flow_todo \ {line_number}
       /\ IF ~IsTerminated(flow_run_status[line_number])
          THEN /\ persist_result' = Put(persist_result, call, "skipped")
               /\ UNCHANGED writer
          ELSE /\ writer' = [writer EXCEPT ![w] =
                     [pc |-> "open", kind |-> "flow", call |-> call,
                      path |-> FlowFileName(line_number),
                      record |-> LineRunRecordOf(line_number),
                      locked |-> FALSE, raised |-> FALSE]]
               /\ UNCHANGED persist_result
       /\ UNCHANGED <<batch_size, flow_run_status, node_todo, flow_artifacts,
                      node_artifacts, file_lock>>
       /\ UNCHANGED NotStorage

\* LineRunRecord.dump: open(path, mode="w") creates or truncates the file.
LineRunRecordDumpOpen(w) ==
    /\ writer[w].pc = "open"
    /\ writer[w].kind = "flow"
    /\ flow_artifacts' = Put(flow_artifacts, writer[w].path, <<>>)
    /\ writer' = [writer EXCEPT ![w].pc = "write"]
    /\ UNCHANGED <<batch_size, flow_run_status, flow_todo, node_todo,
                   node_artifacts, file_lock, persist_result>>
    /\ UNCHANGED NotStorage

\* LineRunRecord.dump: json.dump and the end of the with block.  The record
\* is written from the start of the file, or the write raises.
LineRunRecordDumpWrite(w) ==
    /\ writer[w].pc = "write"
    /\ writer[w].kind = "flow"
    /\ \E fails \in BOOLEAN :
         /\ flow_artifacts' = IF fails THEN flow_artifacts
                              ELSE Put(flow_artifacts, writer[w].path,
                                       <<writer[w].record>>)
         /\ persist_result' = Put(persist_result, writer[w].call,
                                  IF fails THEN "raised" ELSE "ok")
    /\ writer' = [writer EXCEPT ![w] = IdleWriter]
    /\ UNCHANGED <<batch_size, flow_run_status, flow_todo, node_todo,
                   node_artifacts, file_lock>>
    /\ UNCHANGED NotStorage

\* persist_node_run up to NodeRunRecord.dump's test of the file name.
StoragePersistNodeRun(w, node, line_number) ==
    LET filename == NodeFileName(line_number)
        k == CHOOSE i \in 1..MaxPersists : <<node, line_number, i>> \in node_todo
    IN /\ writer[w].pc = "idle"
       /\ \E i \in 1..MaxPersists : <<node, line_number, i>> \in node_todo
       /\ node_todo' = node_todo \ {<<node, line_number, k>>}
       /\ writer' = [writer EXCEPT ![w] =
             [pc |-> IF NeedLock(filename) THEN "acquire" ELSE "open",
              kind |-> "node", call |-> <<"node", node, line_number, k>>,
              path |-> <<node, filename>>,
              record |-> NodeRunRecordOf(node, line_number),
              locked |-> FALSE, raised |-> FALSE]]
       /\ UNCHANGED <<batch_size, flow_run_status, flow_todo, flow_artifacts,
                      node_artifacts, file_lock, persist_result>>
       /\ UNCHANGED NotStorage

\* NodeRunRecord.dump: lock.acquire() returns once no one holds the lock.
NodeRunRecordDumpAcquire(w) ==
    LET file_lock_path == FileLockPath(StorageRunName, writer[w].record.NodeName)
    IN /\ writer[w].pc = "acquire"
       /\ file_lock_path \notin DOMAIN file_lock
       /\ file_lock' = Put(file_lock, file_lock_path, w)
       /\ writer' = [writer EXCEPT ![w].pc = "open", ![w].locked = TRUE]
       /\ UNCHANGED <<batch_size, flow_run_status, flow_todo, node_todo,
                      flow_artifacts, node_artifacts, persist_result>>
       /\ UNCHANGED NotStorage

\* Where NodeRunRecord.dump goes after the with block: to the finally clause
\* under the lock, out of the call otherwise.
AfterNodeWrite(w, fails) ==
    IF writer[w].locked
    THEN /\ writer' = [writer EXCEPT ![w].pc = "release", ![w].raised = fails]
         /\ UNCHANGED persist_result
    ELSE /\ writer' = [writer EXCEPT ![w] = IdleWriter]
         /\ persist_result' = Put(persist_result, writer[w].call,
                                  IF fails THEN "raised" ELSE "ok")

\* NodeRunRecord.dump: open(path, mode="w") creates or truncates the file, or
\* raises.
NodeRunRecordDumpOpen(w) ==
    /\ writer[w].pc = "open"
    /\ writer[w].kind = "node"
    /\ \E fails \in BOOLEAN :
         IF fails
         THEN /\ AfterNodeWrite(w, TRUE)
              /\ UNCHANGED node_artifacts
         ELSE /\ node_artifacts' = Put(node_artifacts, writer[w].path, <<>>)
              /\ writer' = [writer EXCEPT ![w].pc = "write"]
              /\ UNCHANGED persist_result
    /\ UNCHANGED <<batch_size, flow_run_status, flow_todo, node_todo,
                   flow_artifacts, file_lock>>
    /\ UNCHANGED NotStorage

\* NodeRunRecord.dump: json.dump and the end of the with block.
NodeRunRecordDumpWrite(w) ==
    /\ writer[w].pc = "write"
    /\ writer[w].kind = "node"
    /\ \E fails \in BOOLEAN :
         /\ node_artifacts' = IF fails THEN node_artifacts
                              ELSE Put(node_artifacts, writer[w].path,
                                       <<writer[w].record>>)
         /\ AfterNodeWrite(w, fails)
    /\ UNCHANGED <<batch_size, flow_run_status, flow_todo, node_todo,
                   flow_artifacts, file_lock>>
    /\ UNCHANGED NotStorage

\* NodeRunRecord.dump: finally: lock.release(); an exception of the with
\* block goes on to the caller.
NodeRunRecordDumpRelease(w) ==
    LET file_lock_path == FileLockPath(StorageRunName, writer[w].record.NodeName)
    IN /\ writer[w].pc = "release"
       /\ file_lock' = [x \in DOMAIN file_lock \ {file_lock_path} |-> file_lock[x]]
       /\ persist_result' = Put(persist_result, writer[w].call,
                                IF writer[w].raised THEN "raised" ELSE "ok")
       /\ writer' = [writer EXCEPT ![w] = IdleWriter]
       /\ UNCHANGED <<batch_size, flow_run_status, flow_todo, node_todo,
                      flow_artifacts, node_artifacts>>
       /\ UNCHANGED NotStorage

\* One run's output folder, written by NumWriters threads or processes:
\* either the line runs of a batch are persisted, each once, or the node runs
\* of its nodes, each by up to MaxPersists executions of the run.
InitStorage ==
    /\ batch_size \in 1..MaxBatchSize
    /\ \/ /\ flow_run_status \in [StorageLines -> FlowRunStatuses]
          /\ flow_todo = StorageLines
          /\ node_todo = {}
       \/ /\ flow_run_status = <<>>
          /\ flow_todo = {}
          /\ node_todo = {<<r[1], r[2], i>> : r \in NodeRuns, i \in 1..MaxPersists}
    /\ writer = [w \in Writers |-> IdleWriter]
    /\ flow_artifacts = <<>>
    /\ node_artifacts = <<>>
    /\ file_lock = <<>>
    /\ persist_result = <<>>
    /\ InitIdsIdle
    /\ InitRunsIdle
    /\ InitLineIdle
    /\ InitNoBatch
    /\ InitLaterIdle

NextStorage ==
    \/ \E w \in Writers, line_number \in StorageLines : PersistFlowRun(w, line_number)
    \/ \E w \in Writers : LineRunRecordDumpOpen(w)
    \/ \E w \in Writers : LineRunRecordDumpWrite(w)
    \/ \E w \in Writers, node \in StorageNodes, line_number \in NodeLineNumbers :
          StoragePersistNodeRun(w, node, line_number)
    \/ \E w \in Writers : NodeRunRecordDumpAcquire(w)
    \/ \E w \in Writers : NodeRunRecordDumpOpen(w)
    \/ \E w \in Writers : NodeRunRecordDumpWrite(w)
    \/ \E w \in Writers : NodeRunRecordDumpRelease(w)

SpecStorage == InitStorage /\ [][NextStorage]_vars

\* The records in a file of flow_artifacts; none when there is no such file.
RecordsIn(name) ==
    IF name \in DOMAIN flow_artifacts
    THEN {flow_artifacts[name][i] : i \in 1..Len(flow_artifacts[name])}
    ELSE {}

\* Every line's persist_flow_run has returned without raising.
AllLinesPersisted ==
    /\ DOMAIN flow_run_status # {}
    /\ flow_todo = {}
    /\ \A w \in Writers : writer[w].pc = "idle"
    /\ \A c \in DOMAIN persist_result : persist_result[c] # "raised"

\* A writer has the file at `path` open for writing.
Writing(w, kind, path) ==
    /\ writer[w].kind = kind
    /\ writer[w].pc = "write"
    /\ writer[w].path = path

\* With a batch size of 1 every terminated line has its own file, which
\* holds the line's record once the line has been persisted.
OneFilePerLine ==
    (batch_size = 1 /\ AllLinesPersisted) =>
        \A line_number \in DOMAIN flow_run_status :
            RecordsIn(FlowFileName(line_number)) =
                IF IsTerminated(flow_run_status[line_number])
                THEN {LineRunRecordOf(line_number)} ELSE {}

\* C18: with a batch size above 1, once every terminated line has been
\* persisted, the block file of each line holds exactly the records of the
\* terminated lines of its block.
C18_BlockFilesHoldAllRecords ==
    (batch_size > 1 /\ AllLinesPersisted) =>
        \A line_number \in DOMAIN flow_run_status :
            LET lo == (line_number \div batch_size) * batch_size
                hi == lo + batch_size - 1
            IN RecordsIn(FlowFileName(line_number)) =
                 {LineRunRecordOf(l) : l \in
                    {k \in DOMAIN flow_run_status :
                        /\ lo <= k
                        /\ k <= hi
                        /\ IsTerminated(flow_run_status[k])}}

\* C19: no two writers have the same file of flow_artifacts open for writing
\* at the same time.
C19_BlockWritesSerialized ==
    \A w1, w2 \in DOMAIN writer :
        (w1 # w2 /\ writer[w1].kind = "flow" /\ writer[w1].pc = "write") =>
            ~Writing(w2, "flow", writer[w1].path)

\* C20: no two writers have node_artifacts/<node>/000000000.jsonl open for
\* writing at the same time; a writer that reaches the open of that file
\* holds the lock of the run and node until it has written, and a writer
\* that has left dump, normally or by an exception, holds no lock.
C20_NodeFileZeroLocked ==
    /\ \A w1, w2 \in DOMAIN writer :
         (/\ w1 # w2
          /\ writer[w1].kind = "node"
          /\ writer[w1].pc = "write"
          /\ writer[w1].path[2] = NodeFileName(0)) =>
             ~Writing(w2, "node", writer[w1].path)
    /\ \A w \in DOMAIN writer :
         (/\ writer[w].kind = "node"
          /\ writer[w].pc \in {"open", "write"}
          /\ writer[w].path[2] = NodeFileName(0)) =>
             LET p == FileLockPath(StorageRunName, writer[w].path[1])
             IN p \in DOMAIN file_lock /\ file_lock[p] = w
    /\ \A p \in DOMAIN file_lock :
         writer[file_lock[p]].pc \in {"open", "write", "release"}

\* C20 witness: a write to a node's 000000000.jsonl has raised, the lock is
\* free again, and another write to the same file is under way under the lock.
C20_Witness ==
    \E node \in StorageNodes, w \in DOMAIN writer, c \in DOMAIN persist_result :
        /\ writer[w].kind = "node"
        /\ writer[w].pc = "write"
        /\ writer[w].path[2] = NodeFileName(0)
        /\ writer[w].call[2] = node
        /\ c[1] = "node"
        /\ c[2] = node
        /\ c[3] = writer[w].call[3]
        /\ persist_result[c] = "raised"
        /\ file_lock[FileLockPath(StorageRunName, node)] = w

\* ------------------------------------------------- load_detail (C21)
\* The characters of the file and folder names, in the order of their codes.
Alphabet ==
    <<".", "0", "1", "2", "3", "4", "5", "6", "7", "8", "9", "_", "a", "c",
      "d", "e", "j", "l", "n", "o", "r", "s", "u">>

Ord(c) == CHOOSE i \in 1..Len(Alphabet) : Alphabet[i] = c

\* a < b for two names, as sorted() compares them.
RECURSIVE StrLess(_, _)
StrLess(a, b) ==
    IF b = <<>> THEN FALSE
    ELSE IF a = <<>> THEN TRUE
    ELSE IF Head(a) = Head(b) THEN StrLess(Tail(a), Tail(b))
    ELSE Ord(Head(a)) < Ord(Head(b))

\* sorted(folder.iterdir()) on a set of names.
RECURSIVE Sorted(_)
Sorted(names) ==
    IF names = {} THEN <<>>
    ELSE LET first == CHOOSE n \in names : \A m \in names \ {n} : StrLess(n, m)
         IN <<first>> \o Sorted(names \ {first})

\* json.load(f)["run_info"] for each of `paths` in turn; "error" when a file
\* holds no JSON document.
RECURSIVE LoadRunInfos(_, _)
LoadRunInfos(files, paths) ==
    IF paths = <<>> THEN <<>>
    ELSE IF files[Head(paths)] = <<>> THEN <<"error">>
    ELSE <<files[Head(paths)][1].run_info>> \o LoadRunInfos(files, Tail(paths))

\* The paths of the node run files: the node folders in sorted order, the
\* files of each in sorted order.
RECURSIVE NodeRunPaths(_)
NodeRunPaths(node_folders) ==
    IF node_folders = <<>> THEN <<>>
    ELSE LET node == Head(node_folders)
             names == Sorted({p[2] : p \in {q \in DOMAIN node_artifacts : q[1] = node}})
         IN [i \in 1..Len(names) |-> <<node, names[i]>>]
              \o NodeRunPaths(Tail(node_folders))

\* load_detail of a run without detail.json
LoadDetail ==
    [flow_runs |-> LoadRunInfos(flow_artifacts, Sorted(DOMAIN flow_artifacts)),
     node_runs |-> LoadRunInfos(node_artifacts,
                     NodeRunPaths(Sorted({p[1] : p \in DOMAIN node_artifacts})))]

\* The members of a sequence.
Range(seq) == {seq[i] : i \in 1..Len(seq)}

\* No persist call is under way and none has raised.
PersistsReturned ==
    /\ \A w \in DOMAIN writer : writer[w].pc = "idle"
    /\ \A c \in DOMAIN persist_result : persist_result[c] # "raised"

OutputLines == 0..(NumOutputLines - 1)
\* The output of a completed line; a failed line's run info has output null.
OutputValues == {"x", "y"}
NullOutput == "null"
\* The output value of a completed line that is null: {"output": null}.
NullValue == "None"
\* pandas.isna: the cell of a padded row and a null value are both missing
\* values.
IsNa(v) == v \in {"NaN", NullValue}

NotIo == <<flowvars, dagvars, schedvars, ctxvars, poolvars, idvars, runvars, storevars, inpvars,
           feedvars, streamvars, tracevars, invokevars, lastvars>>

\* _collect_io_from_debug_info: the inputs of every line run record and the
\* outputs of those whose output is not None, in the order of the files.
CollectIoFromDebugInfo ==
    LET rows == [i \in 1..NumOutputLines |->
                    [line_number |-> i - 1, output |-> line_output[i - 1]]]
    IN [inputs |-> [i \in 1..NumOutputLines |-> [line_number |-> i - 1]],
        outputs |-> SelectSeq(rows, LAMBDA r : r.output # NullOutput)]

\* persist_result: dump_inputs_and_outputs writes inputs.jsonl and
\* outputs.jsonl.
DumpInputsAndOutputs ==
    /\ sdk_files = <<>>
    /\ sdk_files' = CollectIoFromDebugInfo
    /\ UNCHANGED <<line_output, loaded>>
    /\ UNCHANGED NotIo

\* A slip in _outputs_padding: the rows are appended and not sorted.
OutputsPaddingUnsorted(df, inputs_line_numbers) ==
    IF Len(df) = Len(inputs_line_numbers) THEN df
    ELSE LET lines_set == {df[i].line_number : i \in 1..Len(df)}
             missing == SelectSeq(inputs_line_numbers, LAMBDA i : i \notin lines_set)
         IN df \o [k \in 1..Len(missing) |->
                     [line_number |-> missing[k], output |-> "NaN"]]

\* _outputs_padding: a row without values for every input line that has no
\* output row, the whole sorted by line_number.
OutputsPadding(df, inputs_line_numbers) ==
    IF Len(df) = Len(inputs_line_numbers) THEN df
    ELSE LET lines_set == {df[i].line_number : i \in 1..Len(df)}
             missing == SelectSeq(inputs_line_numbers, LAMBDA i : i \notin lines_set)
         IN SortByLineNumber(df \o [k \in 1..Len(missing) |->
                                      [line_number |-> missing[k], output |-> "NaN"]])

\* outputs.fillna(value="(Failed)")
FillNa(df) ==
    [i \in 1..Len(df) |->
        IF IsNa(df[i].output) THEN [df[i] EXCEPT !.output = "(Failed)"] ELSE df[i]]

\* load_inputs_and_outputs; from_files notes which branch was taken.
LoadInputsAndOutputs ==
    /\ loaded = <<>>
    /\ line_output # <<>>
    /\ loaded' =
         IF sdk_files = <<>>
         THEN [inputs |-> CollectIoFromDebugInfo.inputs,
               outputs |-> CollectIoFromDebugInfo.outputs, from_files |-> FALSE]
         ELSE [inputs |-> sdk_files.inputs, from_files |-> TRUE,
               outputs |->
                  IF Len(sdk_files.outputs) > 0
                  THEN FillNa(OutputsPadding(sdk_files.outputs,
                          [i \in 1..Len(sdk_files.inputs) |->
                              sdk_files.inputs[i].line_number]))
                  ELSE sdk_files.outputs]
    /\ UNCHANGED <<line_output, sdk_files>>
    /\ UNCHANGED NotIo

\* The caller is done with the tables.
DropLoaded ==
    /\ loaded # <<>>
    /\ loaded' = <<>>
    /\ UNCHANGED <<line_output, sdk_files>>
    /\ UNCHANGED NotIo

\* A finished batch of NumOutputLines lines, each completed with an output,
\* completed with a null output value, or failed.
InitIo ==
    /\ line_output \in [OutputLines -> OutputValues \cup {NullValue, NullOutput}]
    /\ sdk_files = <<>>
    /\ loaded = <<>>
    /\ InitIdsIdle
    /\ InitRunsIdle
    /\ InitStorageIdle
    /\ InitLineIdle
    /\ InitNoBatch
    /\ InitInputsIdle
    /\ InitFeedIdle
    /\ InitLastIdle

NextIo ==
    \/ DumpInputsAndOutputs
    \/ LoadInputsAndOutputs
    \/ DropLoaded

SpecIo == InitIo /\ [][NextIo]_vars

\* The outputs table has one row per input line, in ascending order of
\* line_number, with "(Failed)" in the row of every line without output.
PaddedOutputs ==
    /\ Len(loaded.outputs) = Len(loaded.inputs)
    /\ \A i \in 1..Len(loaded.outputs) :
         /\ loaded.outputs[i].line_number = loaded.inputs[i].line_number
         /\ line_output[loaded.outputs[i].line_number] = NullOutput
                => loaded.outputs[i].output = "(Failed)"
         /\ line_output[loaded.outputs[i].line_number] \in OutputValues
                => loaded.outputs[i].output =
                       line_output[loaded.outputs[i].line_number]
    /\ \A i, j \in 1..Len(loaded.outputs) :
         i < j => loaded.outputs[i].line_number < loaded.outputs[j].line_number

\* C22 as stated: whatever load_inputs_and_outputs returns has one outputs
\* row per input line, "(Failed)" for the failed lines, in ascending order
\* of line_number, for any number of failed lines.
C22_OutputsPaddedAlways ==
    loaded # <<>> => PaddedOutputs

\* C22 amended: when inputs.jsonl and outputs.jsonl exist and at least one
\* line has an output row, the outputs table has one row per input line,
\* "(Failed)" for the failed lines, in ascending order of line_number; when
\* every line failed the outputs table has no rows.
C22_OutputsPaddedUnlessAllFailed ==
    (loaded # <<>> /\ loaded.from_files) =>
        IF \E l \in DOMAIN line_output : line_output[l] # NullOutput
        THEN PaddedOutputs
        ELSE loaded.outputs = <<>> /\ Len(loaded.inputs) = NumOutputLines

\* C22 witness: the tables of a batch whose first line failed and whose last
\* line completed have been loaded from the two files.
C22_Witness ==
    /\ loaded # <<>>
    /\ loaded.from_files
    /\ line_output[0] = NullOutput
    /\ line_output[NumOutputLines - 1] # NullOutput
    /\ loaded.outputs[1].output = "(Failed)"

\* The line of the outputs row i.
LineOfRow(i) == loaded.outputs[i].line_number

\* C39: in the table load_inputs_and_outputs returns, "(Failed)" stands
\* only in the row of a line that produced no output row, and the output
\* value of a completed line is returned as it is, also when it is null.
C39_FailedOnlyForMissingRows ==
    loaded # <<>> =>
        \A i \in 1..Len(loaded.outputs) :
            /\ loaded.outputs[i].output = "(Failed)"
                   => line_output[LineOfRow(i)] = NullOutput
            /\ line_output[LineOfRow(i)] # NullOutput
                   => loaded.outputs[i].output = line_output[LineOfRow(i)]

\* ------------------------------------- batch inputs processor (C23, C24)
\* The aliases in the order of the input dict.
AliasOrder == <<"data", "baseline">>
\* The line_number keys of the records of one alias: None where a record has
\* no line_number.
LineNumberLists ==
    UNION {[1..n -> {None} \cup (0..(MaxRecords - 1))] : n \in 0..MaxRecords}
\* The declared flow input; it has no default.
FlowInput == "question"
\* The column mappings a run is submitted with: none, or one expression.
InputsMappings ==
    {<<>>} \cup {[i \in {FlowInput} |-> e] :
                   e \in {[alias |-> "data", column |-> "answer"],
                           [alias |-> "baseline", column |-> "answer"],
                           [alias |-> "data", column |-> "not_exist_key"]}}

\* The records of an alias: each has its place in the file as id.
RecordsOf(line_numbers, columns) ==
    [i \in 1..Len(line_numbers) |->
        [line_number |-> line_numbers[i], id |-> i, columns |-> columns]]

\* The aliases whose list has no record with a line_number.
WithoutLineNumber(input_dict) ==
    {a \in DOMAIN input_dict :
        \A i \in 1..Len(input_dict[a]) : input_dict[a][i].line_number = None}

\* A slip in _merge_input_dicts_by_line: every record is taken by its place.
KeysOfAliasByIndex(input_dict, alias) ==
    [i \in 1..Len(input_dict[alias]) |-> i - 1]

\* _merge_input_dicts_by_line: the line of each record of an alias: the
\* place in the list when no record of the alias has a line_number, the
\* record's line_number otherwise (None: the record is skipped).
KeysOfAlias(input_dict, alias) ==
    [i \in 1..Len(input_dict[alias]) |->
        IF alias \in WithoutLineNumber(input_dict) THEN i - 1
        ELSE input_dict[alias][i].line_number]

\* _merge_input_dicts_by_line: the lines that have a record of every alias,
\* each with the last record of every alias for it, in the order in which
\* the lines were first seen; an error for an empty list and for lists
\* without line_number of different lengths.
MergeInputDictsByLine(input_dict) ==
    LET aliases == DOMAIN input_dict
        without == WithoutLineNumber(input_dict)
        lengths == [a \in without |-> Len(input_dict[a])]
        keys(a) == KeysOfAlias(input_dict, a)
        item(a, line) ==
            LET places == {i \in 1..Len(input_dict[a]) : keys(a)[i] = line}
            IN input_dict[a][CHOOSE i \in places : \A j \in places : j <= i]
        first == CHOOSE k \in 1..Len(AliasOrder) :
                    /\ AliasOrder[k] \in aliases
                    /\ \A j \in 1..(k - 1) : AliasOrder[j] \notin aliases
        ks == keys(AliasOrder[first])
        firsts == {i \in 1..Len(ks) :
                     /\ ks[i] # None
                     /\ \A j \in 1..(i - 1) : ks[j] # ks[i]
                     /\ \A a \in aliases : \E n \in 1..Len(input_dict[a]) :
                            keys(a)[n] = ks[i]}
        place(k) == CHOOSE i \in firsts : Cardinality({j \in firsts : j < i}) = k - 1
    IN IF \E a \in aliases : input_dict[a] = <<>>
       THEN [error |-> "empty list", lengths |-> <<>>, lines |-> <<>>]
       ELSE IF Cardinality({lengths[a] : a \in without}) > 1
       THEN [error |-> "not aligned", lengths |-> lengths, lines |-> <<>>]
       ELSE [error |-> "", lengths |-> <<>>,
             lines |-> [k \in 1..Cardinality(firsts) |->
                          [line_number |-> ks[place(k)],
                           values |-> [a \in aliases |-> item(a, ks[place(k)])]]]]

\* _complete_inputs_mapping_by_default_value: "${data.<name>}" for the flow
\* input that has no default and is not mapped.
CompleteInputsMappingByDefaultValue(mapping) ==
    IF FlowInput \in DOMAIN mapping THEN mapping
    ELSE [i \in {FlowInput} |-> [alias |-> "data", column |-> FlowInput]]

\* apply_inputs_mapping: the expressions of the mapping that have no source
\* in the line.
Unresolved(line, mapping) ==
    {mapping[i] : i \in {j \in DOMAIN mapping :
        \/ mapping[j].alias \notin DOMAIN line.values
        \/ mapping[j].column \notin line.values[mapping[j].alias].columns}}

\* _validate_and_apply_inputs_mapping: the lines of the batch, or the
\* InputMappingError.
ProcessBatchInputs(input_dict, mapping) ==
    LET merged == MergeInputDictsByLine(input_dict)
        completed == CompleteInputsMappingByDefaultValue(mapping)
    IN IF merged.error # "" THEN merged
       ELSE IF \E k \in 1..Len(merged.lines) : Unresolved(merged.lines[k], completed) # {}
       THEN [error |-> "mapping relations", lengths |-> <<>>, lines |-> <<>>]
       ELSE merged

NotInputs == <<flowvars, dagvars, schedvars, ctxvars, poolvars, idvars, storevars, iovars,
               feedvars, streamvars, tracevars, invokevars, lastvars>>

\* The submitted run's batch starts: the batch engine processes the inputs.
\* An InputMappingError ends the batch: the exception is dumped and the
\* run's status is updated to Failed.
BatchEngineRun(name) ==
    LET result == ProcessBatchInputs(input_dicts, inputs_mapping)
    IN /\ name \in batch_running
       /\ batch_inputs = <<>>
       /\ batch_inputs' = result
       /\ IF result.error # ""
          THEN /\ exception_json' = DumpException(exception_json, name, "UserError",
                                                  NoBatchResult)
               /\ orm_runs' = RunsUpdate(orm_runs, name, NoChange, "Failed")
               /\ batch_running' = batch_running \ {name}
          ELSE UNCHANGED <<exception_json, orm_runs, batch_running>>
       /\ UNCHANGED <<input_dicts, inputs_mapping, lines_run, last_op, op_count>>
       /\ UNCHANGED NotInputs

\* The next line of the batch is executed.
ExecBatchLine(name) ==
    /\ name \in batch_running
    /\ batch_inputs # <<>>
    /\ Cardinality(lines_run) < Len(batch_inputs.lines)
    /\ lines_run' = lines_run \cup
          {batch_inputs.lines[Cardinality(lines_run) + 1].line_number}
    /\ UNCHANGED <<input_dicts, inputs_mapping, batch_inputs, runvars>>
    /\ UNCHANGED NotInputs

\* Every line has been executed: the run is completed.
BatchCompletes(name) ==
    /\ name \in batch_running
    /\ batch_inputs # <<>>
    /\ Cardinality(lines_run) = Len(batch_inputs.lines)
    /\ orm_runs' = RunsUpdate(orm_runs, name, NoChange, "Completed")
    /\ batch_running' = batch_running \ {name}
    /\ UNCHANGED <<exception_json, last_op, op_count, inpvars>>
    /\ UNCHANGED NotInputs

\* A run is about to be submitted with data for the alias "data", maybe for
\* "baseline" too, and a column mapping.
InitInputs ==
    /\ \E columns \in {{"question", "answer"}, {"answer"}} :
         \/ \E d \in LineNumberLists :
               input_dicts = [a \in {"data"} |-> RecordsOf(d, columns)]
         \/ \E d \in LineNumberLists, b \in LineNumberLists :
               input_dicts = [a \in {"data", "baseline"} |->
                                IF a = "data" THEN RecordsOf(d, columns)
                                ELSE RecordsOf(b, {"answer"})]
    /\ inputs_mapping \in InputsMappings
    /\ batch_inputs = <<>>
    /\ lines_run = {}
    /\ InitIdsIdle
    /\ InitRunsIdle
    /\ InitStorageIdle
    /\ InitLineIdle
    /\ InitNoBatch
    /\ InitIoIdle
    /\ InitFeedIdle
    /\ InitLastIdle

NextInputs ==
    \/ CreateOrUpdate("run_a", NoParent)
    \/ BatchEngineRun("run_a")
    \/ ExecBatchLine("run_a")
    \/ BatchCompletes("run_a")

SpecInputs == InitInputs /\ [][NextInputs]_vars

\* The line numbers that occur in the records of an alias.
LineNumbersOf(alias) ==
    {input_dicts[alias][i].line_number : i \in 1..Len(input_dicts[alias])} \ {None}

\* The inputs have been processed and no alias has an empty list.
MergedNonEmpty ==
    /\ batch_inputs # <<>>
    /\ \A a \in DOMAIN input_dicts : input_dicts[a] # <<>>

HasInputMappingError ==
    \/ \E a \in DOMAIN input_dicts : input_dicts[a] = <<>>
    \/ \E a, b \in DOMAIN input_dicts :
          /\ LineNumbersOf(a) = {}
          /\ LineNumbersOf(b) = {}
          /\ Len(input_dicts[a]) # Len(input_dicts[b])
    \/ LET mapping == IF FlowInput \in DOMAIN inputs_mapping
                      THEN inputs_mapping[FlowInput]
                      ELSE [alias |-> "data", column |-> FlowInput]
       IN /\ MergeInputDictsByLine(input_dicts).error = ""
          /\ MergeInputDictsByLine(input_dicts).lines # <<>>
          /\ \/ mapping.alias \notin DOMAIN input_dicts
             \/ mapping.column \notin input_dicts[mapping.alias][1].columns

ToolRaised(n) ==
    /\ future[n].state = "finished"
    /\ tool[n].raises
    /\ ~task[n].hit_cache

\* C29: when a node's tool raised inside invoke_tool or invoke_tool_async,
\* the node's run info is Failed with the error and was handed to
\* persist_node_run exactly once, the task's future carries the exception,
\* and the line does not return: when execute has raised, it raised the
\* error of a node whose tool raised.
C29_ToolErrorFailsNodeAndLine ==
    /\ \A n \in Nodes :
          ToolRaised(n) =>
              /\ run_infos[n].status = "Failed"
              /\ run_infos[n].error
              /\ run_infos[n].output = None
              /\ run_infos[n].persisted = 1
              /\ future[n].exception
              /\ pc # "returned"
    /\ (pc = "raised" /\ raised.kind = "ToolExecutionError") => ToolRaised(raised.node)

\* C29 witness: the coroutine tool of a node raised in invoke_tool_async
\* after another node had completed, and execute has raised its error.
C29_Witness ==
    /\ pc = "raised"
    /\ \E n, m \in Nodes :
          /\ ToolRaised(n)
          /\ tool[n].coroutine
          /\ raised.node = n
          /\ run_infos[n].persisted = 1
          /\ run_infos[m].status = "Completed"

\* ------------------------------------ the batch engine feeding the pool
NotFeed == <<flowvars, dagvars, schedvars, ctxvars, idvars, runvars, storevars, iovars, inpvars,
             streamvars, tracevars, invokevars, lastvars>>

\* The lines a worker's process is executing.
InFlight == {worker[w].line : w \in {v \in Processes : worker[v].state = "waiting"}}

\* The lines handed to the pool that have not yet produced a result: those on
\* the pool's input queue and those in flight.
Outstanding == Len(task_queue) + Cardinality(InFlight)

\* The batch engine starts the batch: the pool's workers are started, no line
\* is fed yet.
BatchRun ==
    /\ batch_status = "NotStarted"
    /\ pool_pc = "init"
    /\ pool_pc' = "running"
    /\ worker' = [w \in Processes |->
                    IF w <= n_process THEN IdleWorker
                    ELSE [IdleWorker EXCEPT !.state = "unused"]]
    /\ batch_status' = "Running"
    /\ unfed' = [i \in 1..NumLines |-> i - 1]
    /\ UNCHANGED <<batchvars, task_queue, terminated, result_list, outputs, cancel>>
    /\ UNCHANGED NotFeed

\* A slip in the batch engine: the next line is fed whatever is outstanding.
FeedLineUnbounded ==
    /\ batch_status = "Running"
    /\ unfed # <<>>
    /\ task_queue' = Append(task_queue, Head(unfed))
    /\ unfed' = Tail(unfed)
    /\ UNCHANGED <<batchvars, pool_pc, worker, terminated, result_list, outputs,
                   batch_status, cancel>>
    /\ UNCHANGED NotFeed

\* The batch engine feeds the next line to the pool's input queue, while
\* fewer than max_workers lines are outstanding.
FeedLine ==
    /\ batch_status = "Running"
    /\ unfed # <<>>
    /\ Outstanding < n_process
    /\ task_queue' = Append(task_queue, Head(unfed))
    /\ unfed' = Tail(unfed)
    /\ UNCHANGED <<batchvars, pool_pc, worker, terminated, result_list, outputs,
                   batch_status, cancel>>
    /\ UNCHANGED NotFeed

\* A slip in the pool: a line is handed to a worker whatever the run's status.
BatchTakeLineAnyStatus(w) ==
    TakeLine(w)

\* The pool hands the next line to a worker, unless cancellation was requested.
BatchTakeLine(w) ==
    /\ batch_status = "Running"
    /\ TakeLine(w)

\* The external cancel signal arrives while the batch runs.
CancelSignal ==
    /\ batch_status = "Running"
    /\ batch_status' = "CancelRequested"
    /\ cancel' = [signalled |-> TRUE, in_flight |-> InFlight]
    /\ UNCHANGED <<poolvars, unfed>>
    /\ UNCHANGED NotFeed

\* Cancellation was requested and no line is in flight any more.
BatchCanceled ==
    /\ batch_status = "CancelRequested"
    /\ InFlight = {}
    /\ batch_status' = "Canceled"
    /\ pool_pc' = "returned"
    /\ UNCHANGED <<batchvars, task_queue, worker, terminated, result_list, outputs,
                   unfed, cancel>>
    /\ UNCHANGED NotFeed

\* Every line has been fed and has produced its result.
BatchCompleted ==
    /\ batch_status = "Running"
    /\ unfed = <<>>
    /\ Outstanding = 0
    /\ batch_status' = "Completed"
    /\ pool_pc' = "returned"
    /\ UNCHANGED <<batchvars, task_queue, worker, terminated, result_list, outputs,
                   unfed, cancel>>
    /\ UNCHANGED NotFeed

\* A batch of NumLines lines: every duration of every line, completed and
\* failing lines, every timeout and worker count.
InitBatch ==
    /\ line_duration \in [Lines -> 1..MaxDuration]
    /\ line_outcome \in [Lines -> {"Completed", "UserError"}]
    /\ line_timeout_sec \in 1..MaxTimeoutSec
    /\ n_process \in 1..MaxProcesses
    /\ InitPoolIdle
    /\ InitLineIdle
    /\ InitIdsIdle
    /\ InitRunsIdle
    /\ InitStorageIdle
    /\ InitIoIdle
    /\ InitInputsIdle
    /\ InitFeedIdle
    /\ InitLastIdle

NextBatch ==
    \/ BatchRun
    \/ FeedLine
    \/ \E w \in Processes : BatchTakeLine(w)
    \/ \E w \in Processes : Tick(w)
    \/ \E w \in Processes : LineReturns(w)
    \/ \E w \in Processes : LineTimeout(w)
    \/ CancelSignal
    \/ BatchCanceled
    \/ BatchCompleted

SpecBatch == InitBatch /\ [][NextBatch]_vars

\* Line l has produced its result: it finished, or it timed out.
HasResult(l) ==
    \E i \in 1..Len(result_list) :
        result_list[i] = IF l \in terminated THEN TimeoutLineResult(l) ELSE ExecLine(l)

\* A step in which no worker is handed a line.
NoLineHandedOut ==
    \A w \in Processes :
        worker'[w].state = "waiting" =>
            /\ worker[w].state = "waiting"
            /\ worker'[w].line = worker[w].line

\* No line is in flight, and every line that was in flight when the cancel
\* signal arrived has produced its result.
Drained ==
    /\ InFlight = {}
    /\ \A l \in cancel.in_flight : HasResult(l)

\* C25: after the cancel signal the status is CancelRequested (later
\* Canceled); from then on no worker is handed a line; the status becomes
\* Canceled only from CancelRequested, and when it is Canceled every line that
\* was in flight at the signal has finished or timed out and none is in flight.
C25_CancelDrainsInFlight ==
    /\ [](cancel.signalled <=> batch_status \in {"CancelRequested", "Canceled"})
    /\ [][cancel.signalled => NoLineHandedOut]_vars
    /\ [][(batch_status' = "Canceled" /\ batch_status # "Canceled") =>
             batch_status = "CancelRequested"]_vars
    /\ [](batch_status = "Canceled" => Drained)

\* C25 witness: the batch was canceled while two lines were in flight, one of
\* which then finished and one of which timed out, and a line was never
\* handed to a worker.
C25_Witness ==
    /\ batch_status = "Canceled"
    /\ \E l1, l2 \in cancel.in_flight :
          /\ l1 \in terminated
          /\ l2 \notin terminated
          /\ HasResult(l1)
          /\ HasResult(l2)
    /\ Len(result_list) < NumLines

\* C26: at every moment of a batch run at most max_workers lines have been
\* handed to the pool without having produced a result.
C26_AtMostMaxWorkersOutstanding ==
    Outstanding <= n_process

\* C26 witness: max_workers (more than one) lines are outstanding, all in
\* flight, while the batch engine still has a line to feed.
C26_Witness ==
    /\ batch_status = "Running"
    /\ n_process > 1
    /\ Cardinality(InFlight) = n_process
    /\ Outstanding = n_process
    /\ unfed # <<>>

\* ------------------------------------------------- RunOperations.stream
\* RunStatus.get_running_statuses().
RUNNING_STATUSES == {"NotStarted", "Queued", "Preparing", "Running", "CancelRequested"}

\* The statuses the record of a run is updated to while it is streamed.
StreamStatuses == {"Running", "CancelRequested", "Finalizing", "Completed", "Failed", "Canceled"}

\* The messages stream prints or raises; a message is a tuple of its parts.
InterruptedMessage ==
    <<"The output streaming for the run was interrupted, but the run is still executing.">>
UnknownErrorMessage == <<"Run fails with unknown error.">>
CanceledMessage == <<"Run is canceled.">>
RunSummary == <<"summary">>

NotStream == <<flowvars, dagvars, schedvars, ctxvars, poolvars, idvars, runvars, storevars,
               iovars, inpvars, feedvars, tracevars, invokevars, lastvars>>

\* stream up to the while statement: the run is read; get raises
\* RunNotFoundError for a name without record.
StreamCall(name, raise_on_error) ==
    /\ stream_pc = "idle"
    /\ stream_args' = [name |-> name, raise_on_error |-> raise_on_error]
    /\ IF name \in DOMAIN orm_runs
       THEN /\ stream_run' = FromOrmObject(orm_runs[name])
            /\ stream_pc' = "loop"
            /\ stream_error' = stream_error
       ELSE /\ stream_run' = stream_run
            /\ stream_pc' = "raised"
            /\ stream_error' = [type |-> "RunNotFoundError", message |-> name]
    /\ UNCHANGED stream_out
    /\ UNCHANGED NotStream

\* The while condition: a running or finalizing run has its logs printed and
\* stream sleeps; for any other status the rest of the logs and the summary
\* are printed and the try statement is left.  (The logs are not recorded.)
StreamLoop ==
    /\ stream_pc = "loop"
    /\ IF stream_run.status \in RUNNING_STATUSES \/ stream_run.status = "Finalizing"
       THEN /\ stream_pc' = "sleep"
            /\ stream_out' = stream_out
       ELSE /\ stream_pc' = "after"
            /\ stream_out' = Append(stream_out, RunSummary)
    /\ UNCHANGED <<stream_args, stream_run, stream_error>>
    /\ UNCHANGED NotStream

\* The sleep is over: the run is read again.
StreamWake ==
    /\ stream_pc = "sleep"
    /\ stream_run' = FromOrmObject(orm_runs[stream_args.name])
    /\ stream_pc' = "loop"
    /\ UNCHANGED <<stream_args, stream_out, stream_error>>
    /\ UNCHANGED NotStream

\* KeyboardInterrupt inside the try statement: the message is printed and
\* stream goes on after the try statement with the run it read last.
StreamInterrupted ==
    /\ stream_pc \in {"loop", "sleep"}
    /\ stream_out' = Append(stream_out, InterruptedMessage)
    /\ stream_pc' = "after"
    /\ UNCHANGED <<stream_args, stream_run, stream_error>>
    /\ UNCHANGED NotStream

\* The error message of a failed or canceled run.
StreamErrorMessage ==
    IF stream_run.status = "Failed"
    THEN IF LoadException(stream_args.name) # <<>>
         THEN LoadException(stream_args.name).message
         ELSE UnknownErrorMessage
    ELSE CanceledMessage

\* A slip after the try statement: the error is printed whatever
\* raise_on_error is.
StreamFinishNeverRaises ==
    /\ stream_pc = "after"
    /\ stream_pc' = "returned"
    /\ stream_out' = IF stream_run.status \in {"Failed", "Canceled"}
                     THEN Append(stream_out, StreamErrorMessage)
                     ELSE stream_out
    /\ UNCHANGED <<stream_args, stream_run, stream_error>>
    /\ UNCHANGED NotStream

\* After the try statement: a failed or canceled run raises
\* InvalidRunStatusError or has its error message printed; the run is returned.
StreamFinish ==
    /\ stream_pc = "after"
    /\ IF stream_run.status \in {"Failed", "Canceled"}
       THEN IF stream_args.raise_on_error
            THEN /\ stream_pc' = "raised"
                 /\ stream_error' = [type |-> "InvalidRunStatusError",
                                     message |-> StreamErrorMessage]
                 /\ stream_out' = stream_out
            ELSE /\ stream_pc' = "returned"
                 /\ stream_out' = Append(stream_out, StreamErrorMessage)
                 /\ stream_error' = stream_error
       ELSE /\ stream_pc' = "returned"
            /\ UNCHANGED <<stream_out, stream_error>>
    /\ UNCHANGED <<stream_args, stream_run>>
    /\ UNCHANGED NotStream

\* A run is submitted, its batch ends, its status is updated, and it is
\* streamed once.
InitStream ==
    /\ InitRunsIdle
    /\ InitStreamIdle
    /\ InitIdsIdle
    /\ InitLineIdle
    /\ InitNoBatch
    /\ InitStorageIdle
    /\ InitIoIdle
    /\ InitInputsIdle
    /\ InitFeedIdle
    /\ InitTraceIdle
    /\ InitInvokeIdle
    /\ InitConfigIdle
    /\ InitTracingIdle
    /\ InitWideIdle

NextStream ==
    \/ CreateOrUpdate("run_a", NoParent)
    \/ \E failed \in SUBSET BatchLines, exception \in {"none", "UserError"} :
            BatchEnds("run_a", failed, exception)
    \/ \E status \in StreamStatuses : Update("run_a", NoChange, status)
    \/ \E raise_on_error \in BOOLEAN : StreamCall("run_a", raise_on_error)
    \/ StreamLoop
    \/ StreamWake
    \/ StreamInterrupted
    \/ StreamFinish

SpecStream == InitStream /\ [][NextStream]_vars

\* stream has ended for a run that exists.
StreamEnded ==
    /\ stream_pc \in {"returned", "raised"}
    /\ stream_run # <<>>

\* The error message stream raised or printed last.
StreamMessage ==
    IF stream_pc = "raised" THEN stream_error.message
    ELSE stream_out[Len(stream_out)]

\* The message of a canceled run, and of a failed run: the message of
\* exception.json, or the default when stream found no exception.json.
RightMessage ==
    IF stream_run.status = "Canceled" THEN StreamMessage = CanceledMessage
    ELSE \/ StreamMessage = UnknownErrorMessage
         \/ /\ LoadException(stream_args.name) # <<>>
            /\ StreamMessage = LoadException(stream_args.name).message

\* What stream does at its end with the status it read last.
StreamOutcome ==
    IF stream_run.status \in {"Failed", "Canceled"}
    THEN IF stream_args.raise_on_error
         THEN /\ stream_pc = "raised"
              /\ stream_error.type = "InvalidRunStatusError"
              /\ RightMessage
              /\ \A i \in 1..Len(stream_out) :
                    stream_out[i] \in {RunSummary, InterruptedMessage}
         ELSE /\ stream_pc = "returned"
              /\ stream_error = <<>>
              /\ stream_out # <<>>
              /\ RightMessage
    ELSE /\ stream_pc = "returned"
         /\ stream_error = <<>>
         /\ \A i \in 1..Len(stream_out) :
               stream_out[i] \in {RunSummary, InterruptedMessage}

\* C27 as stated: stream ends only after the status has left the running
\* statuses; a final status Failed or Canceled raises InvalidRunStatusError
\* when raise_on_error is true and otherwise has the error message printed
\* and the run returned; any other final status returns the run.
C27_StreamEndsAfterRun ==
    StreamEnded =>
        /\ stream_run.status \notin RUNNING_STATUSES
        /\ StreamOutcome

\* C27 amended: stream ends only after the status it read has left the
\* running statuses (and Finalizing), or after a KeyboardInterrupt, which it
\* answers by printing that the streaming was interrupted; then the status
\* it read last decides: Failed or Canceled raises InvalidRunStatusError when
\* raise_on_error is true and otherwise has the error message printed and the
\* run returned; any other status returns the run without raising.
C27_StreamEndsAfterRunOrInterrupt ==
    StreamEnded =>
        /\ \/ stream_run.status \notin (RUNNING_STATUSES \cup {"Finalizing"})
           \/ \E i \in 1..Len(stream_out) : stream_out[i] = InterruptedMessage
        /\ StreamOutcome

\* C27 witness: stream of a failed run with raise_on_error false has slept,
\* then printed the summary and the message of exception.json, and returned.
C27_Witness ==
    /\ stream_pc = "returned"
    /\ ~stream_args.raise_on_error
    /\ stream_run.status = "Failed"
    /\ LoadException("run_a") # <<>>
    /\ stream_out = <<RunSummary, LoadException("run_a").message>>

\* -------------------------------------------------------------- Tracer
Elements == {"a", "b", "c"}

\* The lazy sequences (iterators) a tool returns: what they produce.
LazySequences == UNION {[1..n -> Elements] : n \in 0..MaxElements}

\* What a trace's output holds for a lazy sequence: the proxy object.
Proxy == <<"GeneratorProxy">>

\* An output that is no lazy sequence: a value, or None.
NoOutput == <<"None">>
PlainOutputs == {<<"x">>, <<"y">>, NoOutput}

NotTrace == <<flowvars, dagvars, schedvars, ctxvars, poolvars, idvars, runvars, storevars,
              iovars, inpvars, feedvars, streamvars, invokevars, lastvars>>

\* The prefix of a sequence.
Prefix(seq, n) == [i \in 1..n |-> seq[i]]

\* A slip in _pop: the lazy sequence is not wrapped; the trace holds its
\* string form and the caller gets the sequence itself.
PopUnwrapped ==
    /\ last_trace # <<>>
    /\ ~last_trace.ended
    /\ last_trace' = [output |-> IF pop_output.lazy THEN <<"str">>
                                 ELSE pop_output.value,
                      error |-> pop_output.error,
                      ended |-> TRUE]
    /\ IF pop_output.lazy
       THEN /\ generator' = "suspended"
            /\ received' = <<>>
       ELSE /\ generator' = "not a generator"
            /\ received' = pop_output.value
    /\ UNCHANGED <<pop_output, source_rest, proxy_items>>
    /\ UNCHANGED NotTrace

\* _pop: a lazy sequence is wrapped in a GeneratorProxy, which the trace's
\* output holds; the trace is ended and popped, and the caller gets a
\* generator over the proxy.  Any other output is stored (None is not: the
\* trace's output stays None) and returned as it is; received then holds it.
Pop ==
    /\ last_trace # <<>>
    /\ ~last_trace.ended
    /\ last_trace' = [output |-> IF pop_output.lazy THEN Proxy
                                 ELSE pop_output.value,
                      error |-> pop_output.error,
                      ended |-> TRUE]
    /\ IF pop_output.lazy
       THEN /\ generator' = "suspended"
            /\ received' = <<>>
       ELSE /\ generator' = "not a generator"
            /\ received' = pop_output.value
    /\ UNCHANGED <<pop_output, source_rest, proxy_items>>
    /\ UNCHANGED NotTrace

\* The caller asks the generator for its next element and the source has
\* one: the proxy takes it from the source, appends it to its items and
\* yields it.
GeneratorNext ==
    /\ generator = "suspended"
    /\ source_rest # <<>>
    /\ source_rest' = Tail(source_rest)
    /\ proxy_items' = IF last_trace.output = Proxy
                      THEN Append(proxy_items, Head(source_rest))
                      ELSE proxy_items
    /\ received' = Append(received, Head(source_rest))
    /\ UNCHANGED <<pop_output, last_trace, generator>>
    /\ UNCHANGED NotTrace

\* The caller asks for the next element and the source has none: the
\* generator is exhausted.
GeneratorStop ==
    /\ generator = "suspended"
    /\ source_rest = <<>>
    /\ generator' = "exhausted"
    /\ UNCHANGED <<pop_output, last_trace, source_rest, proxy_items, received>>
    /\ UNCHANGED NotTrace

\* The output of the trace as to_json serializes it: the items of a proxy.
TraceOutput ==
    IF last_trace.output = Proxy THEN proxy_items ELSE last_trace.output

\* A tool call has been pushed and has returned a lazy sequence, a plain
\* value or nothing, with or without error.
InitTrace ==
    /\ \/ \E seq \in LazySequences, e \in {None, 1} :
             /\ pop_output = [lazy |-> TRUE, value |-> seq, error |-> e]
             /\ source_rest = seq
       \/ \E v \in PlainOutputs, e \in {None, 1} :
             /\ pop_output = [lazy |-> FALSE, value |-> v, error |-> e]
             /\ source_rest = <<>>
    /\ last_trace = [output |-> NoOutput, error |-> None, ended |-> FALSE]
    /\ proxy_items = <<>>
    /\ generator = "none"
    /\ received = <<>>
    /\ InitStreamIdle
    /\ InitRunsIdle
    /\ InitIdsIdle
    /\ InitLineIdle
    /\ InitNoBatch
    /\ InitStorageIdle
    /\ InitIoIdle
    /\ InitInputsIdle
    /\ InitFeedIdle
    /\ InitInvokeIdle
    /\ InitConfigIdle
    /\ InitTracingIdle
    /\ InitWideIdle

NextTrace ==
    \/ Pop
    \/ GeneratorNext
    \/ GeneratorStop

SpecTrace == InitTrace /\ [][NextTrace]_vars

\* C28: when pop is given a lazy sequence the caller gets a generator; what
\* it has received so far are the source's first elements in order, the
\* trace's output holds exactly these, and once the generator is exhausted
\* both are the full list of the source's elements.
C28_ProxyStreamsAndCaptures ==
    (last_trace.ended /\ pop_output.lazy) =>
        /\ generator \in {"suspended", "exhausted"}
        /\ Len(received) <= Len(pop_output.value)
        /\ received = Prefix(pop_output.value, Len(received))
        /\ TraceOutput = received
        /\ generator = "exhausted" => received = pop_output.value

\* C28 witness: the generator of a lazy sequence of MaxElements elements, not
\* all the same, is exhausted and the trace's output is their list.
C28_Witness ==
    /\ pop_output.lazy
    /\ generator = "exhausted"
    /\ Len(pop_output.value) = MaxElements
    /\ pop_output.value[1] # pop_output.value[MaxElements]
    /\ TraceOutput = pop_output.value
    /\ received = pop_output.value

\* ---------------------------- invoke_tool, statement by statement (C30)
NotInvoke == <<flowvars, dagvars, schedvars, ctxvars, poolvars, idvars, runvars, storevars,
               iovars, inpvars, feedvars, streamvars, tracevars, lastvars>>

\* The calls: a plain or a coroutine tool; a cache hit (plain tools only) or
\* a tool that returns `result` or raises; and whether a statement after
\* end_run(result), still inside the try statement, raises.
InvokeCalls ==
    {c \in [coroutine : BOOLEAN, hit_cache : BOOLEAN, raises : BOOLEAN,
            late_error : BOOLEAN, result : {0, 1, 2}] :
        c.hit_cache => ~c.coroutine}

\* A run info with its end_time.
NewRunInfo ==
    [k \in DOMAIN NoRunInfo \cup {"end_time"} |->
        IF k = "end_time" THEN None ELSE NoRunInfo[k]]

\* Status.is_terminated: the run has been ended.
IsEnded(info) == info.status \in {"Completed", "Failed", "Bypassed", "Canceled"}

\* A slip in end_run: a run that has been ended is ended again.
EndRunOverwrites(info, result, ex, now) ==
    [(IF ex THEN EndRunException(info) ELSE EndRunResult(info, result))
        EXCEPT !.end_time = now]

\* end_run(run_id, result | ex): the run gets its status, its output or
\* error and its end_time; a call for a run that has been ended is logged
\* and ignored.
EndRun(info, result, ex, now) ==
    IF IsEnded(info) THEN info
    ELSE [(IF ex THEN EndRunException(info) ELSE EndRunResult(info, result))
             EXCEPT !.end_time = now]

\* _prepare_node_run: the node run is started.
InvokePrepare(call) ==
    /\ inv_pc = "idle"
    /\ inv_call' = call
    /\ inv_info' = StartNodeRun(NewRunInfo)
    /\ inv_pc' = "try"
    /\ inv_clock' = inv_clock + 1
    /\ UNCHANGED <<inv_ignored, inv_exception>>
    /\ UNCHANGED NotInvoke

\* The try statement up to end_run: the result comes from the cache, or the
\* tool is called and returns or raises.
InvokeTry ==
    /\ inv_pc = "try"
    /\ IF ~inv_call.hit_cache /\ inv_call.raises
       THEN /\ inv_pc' = "except"
            /\ inv_exception' = TRUE
       ELSE /\ inv_pc' = "end_run"
            /\ inv_exception' = FALSE
    /\ inv_clock' = inv_clock + 1
    /\ UNCHANGED <<inv_call, inv_info, inv_ignored>>
    /\ UNCHANGED NotInvoke

\* end_run with the result, and the rest of the try statement, which
\* returns the result or raises.
InvokeEndRun ==
    /\ inv_pc = "end_run"
    /\ inv_clock' = inv_clock + 1
    /\ inv_info' = EndRun(inv_info, inv_call.result, FALSE, inv_clock')
    /\ inv_ignored' = IF IsEnded(inv_info) THEN inv_ignored + 1 ELSE inv_ignored
    /\ IF inv_call.late_error
       THEN /\ inv_pc' = "except"
            /\ inv_exception' = TRUE
       ELSE /\ inv_pc' = "finally"
            /\ inv_exception' = FALSE
    /\ UNCHANGED inv_call
    /\ UNCHANGED NotInvoke

\* The except clause: end_run with the exception, which is raised again.
InvokeExcept ==
    /\ inv_pc = "except"
    /\ inv_clock' = inv_clock + 1
    /\ inv_info' = EndRun(inv_info, None, TRUE, inv_clock')
    /\ inv_ignored' = IF IsEnded(inv_info) THEN inv_ignored + 1 ELSE inv_ignored
    /\ inv_pc' = "finally"
    /\ UNCHANGED <<inv_call, inv_exception>>
    /\ UNCHANGED NotInvoke

\* The finally clause: persist_node_run; then the call returns or raises.
InvokeFinally ==
    /\ inv_pc = "finally"
    /\ inv_clock' = inv_clock + 1
    /\ inv_info' = PersistNodeRun(inv_info)
    /\ inv_pc' = IF inv_exception THEN "raised" ELSE "returned"
    /\ UNCHANGED <<inv_call, inv_ignored, inv_exception>>
    /\ UNCHANGED NotInvoke

InitInvoke ==
    /\ InitInvokeIdle
    /\ InitConfigIdle
    /\ InitTracingIdle
    /\ InitWideIdle
    /\ InitStreamIdle
    /\ InitTraceIdle
    /\ InitRunsIdle
    /\ InitIdsIdle
    /\ InitLineIdle
    /\ InitNoBatch
    /\ InitStorageIdle
    /\ InitIoIdle
    /\ InitInputsIdle
    /\ InitFeedIdle

NextInvoke ==
    \/ \E call \in InvokeCalls : InvokePrepare(call)
    \/ InvokeTry
    \/ InvokeEndRun
    \/ InvokeExcept
    \/ InvokeFinally

SpecInvoke == InitInvoke /\ [][NextInvoke]_vars

\* A step that leaves what end_run set in an ended run info as it is.
EndedRunInfoKept ==
    (inv_pc # "idle" /\ IsEnded(inv_info)) =>
        /\ inv_info'.status = inv_info.status
        /\ inv_info'.output = inv_info.output
        /\ inv_info'.error = inv_info.error
        /\ inv_info'.end_time = inv_info.end_time

\* end_run with the result was followed by end_run with an exception.
DoubleCompletion ==
    /\ inv_pc \in {"finally", "returned", "raised"}
    /\ inv_call.late_error
    /\ inv_call.hit_cache \/ ~inv_call.raises

\* C30: once a node run has been ended, no later end_run changes its status,
\* output, error or end_time; when invoke_tool's end_run with the result is
\* followed by end_run with an exception, the second call is logged and
\* ignored and the run stays Completed with the result.
C30_SecondEndRunIgnored ==
    /\ [][EndedRunInfoKept]_vars
    /\ [](DoubleCompletion =>
             /\ inv_ignored = 1
             /\ inv_info.status = "Completed"
             /\ inv_info.output = inv_call.result
             /\ ~inv_info.error
             /\ inv_info.end_time # None
             /\ inv_info.end_time < inv_clock)

\* C30 witness: invoke_tool has raised after end_run with the result and
\* end_run with the exception; the run is Completed and was persisted once.
C30_Witness ==
    /\ inv_pc = "raised"
    /\ DoubleCompletion
    /\ inv_ignored = 1
    /\ inv_info.status = "Completed"
    /\ inv_info.output = inv_call.result
    /\ inv_info.persisted = 1

\* ------------------------------------------- the output path of a run
\* A path is the sequence of its segments, the text between its slashes:
\* "${flow_directory}/." is <<"${flow_directory}", ".">>, a trailing slash
\* leaves an empty last segment, and an absolute path is a sequence of names
\* below the root.
FLOW_DIRECTORY_MACRO_IN_CONFIG == "${flow_directory}"
Segments == {FLOW_DIRECTORY_MACRO_IN_CONFIG, ".", "..", "runs", ""}
ConfigValues == UNION {[1..n -> Segments] : n \in 1..MaxSegments}
\* Where the flows are, the working directory and the home directory.
FlowDirectories == {<<"home", "flow">>, <<"home", "flows", "web">>}
WorkingDirectory == <<"home">>
DefaultOutputPath == <<"home", ".promptflow", ".runs">>

NotConfig == <<flowvars, dagvars, schedvars, ctxvars, poolvars, idvars,
               runvars, storevars, iovars, inpvars, feedvars, streamvars,
               tracevars, invokevars, tracingvars, widevars>>

\* value.rstrip("/"): the empty segments at the end go, down to one segment.
RECURSIVE RStripSlash(_)
RStripSlash(value) ==
    IF Len(value) > 1 /\ value[Len(value)] = ""
    THEN RStripSlash(SubSeq(value, 1, Len(value) - 1))
    ELSE value

\* _validate for the key run.output_path: the error it raises, "" when it
\* returns.
Validate(value) ==
    LET stripped == RStripSlash(value)
    IN  IF stripped[Len(stripped)] = FLOW_DIRECTORY_MACRO_IN_CONFIG
        THEN "InvalidConfigValue"
        ELSE ""

\* path.replace(macro, flow_posix_path): the posix path of the flow starts
\* with a slash, so an empty segment comes before its names.
RECURSIVE ReplaceMacro(_, _)
ReplaceMacro(value, flow) ==
    IF value = <<>> THEN <<>>
    ELSE LET rest == ReplaceMacro(Tail(value), flow)
         IN  IF Head(value) = FLOW_DIRECTORY_MACRO_IN_CONFIG
             THEN <<"">> \o flow \o rest
             ELSE <<Head(value)>> \o rest

\* The names that are left after "." and the empty segments are dropped and
\* ".." has removed the name before it, starting from the names of base.
RECURSIVE Normalize(_, _)
Normalize(base, segments) ==
    IF segments = <<>> THEN base
    ELSE LET seg == Head(segments)
             next == IF seg \in {"", "."} THEN base
                     ELSE IF seg = ".."
                     THEN IF base = <<>> THEN <<>>
                          ELSE SubSeq(base, 1, Len(base) - 1)
                     ELSE Append(base, seg)
         IN  Normalize(next, Tail(segments))

\* Path(text).resolve(): a text that starts with a slash is absolute, any
\* other text is relative to the working directory.  No name is a symlink.
Resolve(segments) ==
    IF segments[1] = "" /\ Len(segments) > 1
    THEN Normalize(<<>>, segments)
    ELSE Normalize(WorkingDirectory, segments)

\* Configuration.set_config for the key run.output_path.
SetConfig(value) ==
    LET error == Validate(value)
    IN  /\ config_op' = [value |-> value, error |-> error, before |-> config]
        /\ config' = IF error = "" THEN value ELSE config
        /\ UNCHANGED output_path
        /\ UNCHANGED NotConfig

\* The user writes a value into pf.yaml by hand: nothing validates it.
ManualEdit(value) ==
    /\ config' = value
    /\ config_op' = <<>>
    /\ UNCHANGED output_path
    /\ UNCHANGED NotConfig

\* Run._generate_output_path for a run of the flow in directory flow; mkdir
\* succeeds or fails.  base is the directory the directory of the run is
\* created in.
GenerateOutputPath(flow, mkdir_ok) ==
    LET path == Resolve(ReplaceMacro(config, flow))
        failed == config /= <<>> /\ (path = flow \/ ~mkdir_ok)
        base == IF config = <<>> \/ failed THEN DefaultOutputPath ELSE path
    IN  /\ output_path' = [flow |-> flow, base |-> base, warned |-> failed]
        /\ UNCHANGED <<config, config_op>>
        /\ UNCHANGED NotConfig

InitConfig ==
    /\ InitConfigIdle
    /\ InitTracingIdle
    /\ InitWideIdle
    /\ InitStreamIdle
    /\ InitTraceIdle
    /\ InitInvokeIdle
    /\ InitRunsIdle
    /\ InitIdsIdle
    /\ InitLineIdle
    /\ InitNoBatch
    /\ InitStorageIdle
    /\ InitIoIdle
    /\ InitInputsIdle
    /\ InitFeedIdle

NextConfig ==
    \/ \E value \in ConfigValues : SetConfig(value)
    \/ \E value \in ConfigValues : ManualEdit(value)
    \/ \E flow \in FlowDirectories, mkdir_ok \in BOOLEAN :
           GenerateOutputPath(flow, mkdir_ok)

SpecConfig == InitConfig /\ [][NextConfig]_vars

\* The value holds the macro and its substitution is the directory of the
\* flow itself.
YieldsFlowDirectory(value, flow) ==
    /\ \E i \in 1..Len(value) : value[i] = FLOW_DIRECTORY_MACRO_IN_CONFIG
    /\ Resolve(ReplaceMacro(value, flow)) = flow

Rejected ==
    /\ config_op.error = "InvalidConfigValue"
    /\ config = config_op.before

\* The base directory of the last output path is not the flow directory.
BaseIsNotFlowDirectory ==
    output_path /= <<>> => output_path.base /= output_path.flow

\* C31: a run.output_path whose ${flow_directory} substitution yields the
\* flow directory itself is rejected by set_config with InvalidConfigValue
\* and the stored configuration stays as it was, and the base directory of a
\* run's output path is never the flow directory.
C31_FlowDirectoryRejected ==
    /\ (/\ config_op /= <<>>
        /\ \E flow \in FlowDirectories :
               YieldsFlowDirectory(config_op.value, flow))
       => Rejected
    /\ BaseIsNotFlowDirectory

\* ------------------------------------- the threads and the DAG manager
\* A worker thread has taken a task or has finished one in this step.
WorkerStep ==
    \E n \in Nodes :
        \/ future[n].state = "pending" /\ future'[n].state = "running"
        \/ future[n].state = "running" /\ future'[n].state = "finished"

WorkerLeavesDagManager == WorkerStep => UNCHANGED dagvars

\* C32 as stated: during execute every read or write of the DAG manager is
\* made by the main thread, no worker thread calls a DAG manager operation.
C32_DagManagerOnMainThread ==
    \A c \in dag_manager_calls : c[1] = "MainThread"

\* C32: during execute every write of the DAG manager and every test of
\* completed() is made by the main thread; a worker thread calls only
\* get_node_valid_inputs, and its steps leave the DAG manager as it is.
C32_DagManagerWrittenOnMainThread ==
    /\ [](\A c \in dag_manager_calls :
              c[1] # "MainThread" => c[2] = "get_node_valid_inputs")
    /\ [][WorkerLeavesDagManager]_vars

\* C32 witness: execute has returned after a worker thread resolved the
\* inputs of its node and the main thread recorded completed nodes.
C32_Witness ==
    /\ pc = "returned"
    /\ <<"Worker", "get_node_valid_inputs">> \in dag_manager_calls
    /\ <<"MainThread", "complete_nodes">> \in dag_manager_calls
    /\ \E n \in Nodes : deps[n] # {} /\ n \in DOMAIN completed_nodes_outputs

\* ---------------------------------- the worker threads of a wide flow
\* A flow of NumWideNodes nodes none of which refers to another: the first
\* _execute_nodes submits them all, and the tasks differ in nothing, so the
\* executor is seen through the numbers of waiting, executing and finished
\* tasks.
NotWide == <<flowvars, dagvars, schedvars, ctxvars, poolvars, idvars,
             runvars, storevars, iovars, inpvars, feedvars, streamvars,
             tracevars, invokevars, cfgvars, tracingvars>>

\* A worker thread of the ThreadPoolExecutor takes a waiting task: there are
\* max_workers threads, each runs one task at a time.
WideStartTask ==
    /\ queued > 0
    /\ executing < NodeConcurrency(configured)
    /\ queued' = queued - 1
    /\ executing' = executing + 1
    /\ UNCHANGED <<configured, done>>
    /\ UNCHANGED NotWide

\* The tool of a task returns or raises.
WideFinishTask ==
    /\ executing > 0
    /\ executing' = executing - 1
    /\ done' = done + 1
    /\ UNCHANGED <<configured, queued>>
    /\ UNCHANGED NotWide

InitWide ==
    /\ configured \in 1..MaxWideConcurrency
    /\ queued = NumWideNodes
    /\ executing = 0
    /\ done = 0
    /\ InitConfigIdle
    /\ InitTracingIdle
    /\ InitStreamIdle
    /\ InitTraceIdle
    /\ InitInvokeIdle
    /\ InitRunsIdle
    /\ InitIdsIdle
    /\ InitLineIdle
    /\ InitNoBatch
    /\ InitStorageIdle
    /\ InitIoIdle
    /\ InitInputsIdle
    /\ InitFeedIdle

NextWide ==
    \/ WideStartTask
    \/ WideFinishTask

SpecWide == InitWide /\ [][NextWide]_vars

\* C33: at every moment of execute at most min(node_concurrency, 16) node
\* tools are executing, whatever node_concurrency >= 1 is configured.
C33_AtMostMinConcurrencyTools ==
    /\ configured >= 1
    /\ executing <= Min(configured, 16)

\* C33 witness: with a node_concurrency above 16 and more than 16 tasks,
\* sixteen tools execute and a task waits.
C33_Witness ==
    /\ configured > 16
    /\ executing = 16
    /\ queued > 0

\* ------------------------------------- the node run records of a line
\* The node has one record, it is ended and it was persisted once.
OneEndedRecord(n) ==
    /\ IsEnded(run_infos[n])
    /\ run_infos[n].persisted = 1

\* The node was bypassed and nothing of it was executed, or its tool was
\* called at most once (not at all on a cache hit) and it was not bypassed.
BypassedOrExecutedOnce(n) ==
    IF n \in bypassed_nodes
    THEN /\ run_infos[n].status = "Bypassed"
         /\ tool_calls[n] = 0
         /\ future[n].state = "none"
    ELSE /\ run_infos[n].status = "Completed"
         /\ tool_calls[n] = IF task[n].hit_cache THEN 0 ELSE 1
         /\ future[n].state = "finished"

\* C34: when the nodes of a line have been executed, every node of the flow
\* has exactly one node run record, in a terminal status: no node was
\* executed twice and no node was both bypassed and executed.
C34_OneTerminalRecordPerNode ==
    pc = "returned" =>
        \A n \in Nodes : OneEndedRecord(n) /\ BypassedOrExecutedOnce(n)

\* C34 witness: a line has completed with a bypassed node, a node that ran
\* its tool and a node that has a reference to another node.
C34_Witness ==
    /\ pc = "returned"
    /\ bypassed_nodes # {}
    /\ \E n \in Nodes : tool_calls[n] = 1 /\ run_infos[n].status = "Completed"
    /\ \E n \in Nodes : deps[n] # {} /\ n \notin bypassed_nodes

\* ------------------------------------------- flows that cannot complete
\* A reference to a node the flow does not have.
MissingNode == 0

\* Every flow over Nodes: a node may refer to itself, to a later node or to
\* a node that is missing.
AnyDeps == [Nodes -> SUBSET (Nodes \cup {MissingNode})]

\* No activate condition, or one node with one.
OneActivation ==
    {[n \in Nodes |-> NoActivate]} \cup
    {[n \in Nodes |-> IF n = k THEN c ELSE NoActivate] :
        k \in Nodes, c \in UNION {ActivateChoices(m) \ {NoActivate} : m \in Nodes}}

InitAnyFlow ==
    /\ deps \in AnyDeps
    /\ activate \in OneActivation
    /\ \A n \in Nodes : activate[n] \in ActivateChoices(n)
    /\ enable_cache = [n \in Nodes |-> FALSE]
    /\ tool = [n \in Nodes |-> PlainTool]
    /\ flow_inputs = 0
    /\ node_concurrency = MaxConcurrency
    /\ InitRun
    /\ InitNoBatch
    /\ InitRest

SpecAnyFlow == InitAnyFlow /\ [][NextLine]_vars

\* Every reference is to a node of the flow or to a flow input.
ReferencesResolve == \A n \in Nodes : MissingNode \notin deps[n]

\* The nodes can be ordered so that every node comes after the nodes it
\* refers to.
Acyclic ==
    \E order \in [Nodes -> Nodes] :
        /\ \A n, m \in Nodes : n # m => order[n] # order[m]
        /\ \A n \in Nodes : \A m \in NodeDependencies(n) \cap Nodes :
               order[m] < order[n]

\* The loop test of execute finds the DAG not completed and no future in
\* the map.
NothingInFlight ==
    /\ pc = "loop"
    /\ ~DagCompleted
    /\ future_to_node = {}

NoNodeExecutedErrorRaised == raised.kind = "NoNodeExecutedError"

RaisesWhenNothingInFlight ==
    (NothingInFlight /\ pc' # pc) =>
        (pc' = "except" /\ NoNodeExecutedErrorRaised')

\* C35: execute raises NoNodeExecutedError exactly when the DAG is not
\* completed and no worker task is in flight; for an acyclic flow whose
\* references all resolve this never happens, also when every node is
\* bypassed.
C35_NoNodeExecutedExactlyWhenStuck ==
    /\ [](NoNodeExecutedErrorRaised => (~DagCompleted /\ future_to_node = {}))
    /\ [][RaisesWhenNothingInFlight]_vars
    /\ []((Acyclic /\ ReferencesResolve) =>
              (~NothingInFlight /\ ~NoNodeExecutedErrorRaised))

\* C35 witness: a flow with a reference cycle has raised NoNodeExecutedError
\* after a node was executed.
C35_Witness ==
    /\ pc = "raised"
    /\ NoNodeExecutedErrorRaised
    /\ ReferencesResolve
    /\ ~Acyclic
    /\ DOMAIN completed_nodes_outputs # {}

\* ------------------------------------------------------------ the tracer
\* One execution context.  A Trace object is known by the number of the push
\* that brought it; objects maps it to its start time, its end time (0 for
\* none) and its children, traces and trace_stack hold such numbers.  The
\* clock is the number of push and pop calls.
TracerRuns == 1..NumTracerRuns
NotTracing == <<flowvars, dagvars, schedvars, ctxvars, poolvars, idvars,
                runvars, storevars, iovars, inpvars, feedvars, streamvars,
                tracevars, invokevars, cfgvars, widevars>>

NoTracer == <<>>
UtcNow == trace_calls.push + trace_calls.pop + 1

\* Tracer(run_id, node_name)
NewTracer(rid) ==
    [run_id |-> rid, traces |-> <<>>, trace_stack |-> <<>>, objects |-> <<>>]

Top(t) == t.trace_stack[Len(t.trace_stack)]

\* A slip in _push: the trace becomes a child of the first frame of the
\* stack.
TracerPushUnderFirst(t, now) ==
    LET id == Len(t.objects) + 1
        new == [start_time |-> now, end_time |-> 0, children |-> <<>>]
        objs == Append(t.objects, new)
    IN  IF t.trace_stack = <<>>
        THEN [t EXCEPT !.objects = objs,
                       !.traces = Append(@, id),
                       !.trace_stack = Append(@, id)]
        ELSE [t EXCEPT !.objects = [objs EXCEPT ![t.trace_stack[1]].children =
                                                    Append(@, id)],
                       !.trace_stack = Append(@, id)]

\* _push: a root trace when the stack is empty, else a child of the top
\* frame; the trace is the new top frame.
TracerPush(t, now) ==
    LET id == Len(t.objects) + 1
        new == [start_time |-> now, end_time |-> 0, children |-> <<>>]
        objs == Append(t.objects, new)
    IN  IF t.trace_stack = <<>>
        THEN [t EXCEPT !.objects = objs,
                       !.traces = Append(@, id),
                       !.trace_stack = Append(@, id)]
        ELSE [t EXCEPT !.objects = [objs EXCEPT ![Top(t)].children = Append(@, id)],
                       !.trace_stack = Append(@, id)]

\* _pop: the top frame gets its end time and leaves the stack.
TracerPop(t, now) ==
    [t EXCEPT !.objects = [@ EXCEPT ![Top(t)].end_time = now],
              !.trace_stack = SubSeq(@, 1, Len(@) - 1)]

TracerOp(op, arg, result, ex) ==
    tracer_op' = [op |-> op, arg |-> arg, result |-> result, raised |-> ex,
                  before |-> tracer]

\* A slip in start_tracing: the new tracer replaces the active one.
StartTracingReplaces(rid) ==
    /\ tracer' = NewTracer(rid)
    /\ trace_calls' = [push |-> 0, pop |-> 0]
    /\ TracerOp("start_tracing", rid, <<>>, FALSE)
    /\ UNCHANGED NotTracing

\* start_tracing(rid): with an active tracer a warning and nothing else.
StartTracing(rid) ==
    /\ IF tracer # NoTracer
       THEN UNCHANGED <<tracer, trace_calls>>
       ELSE /\ tracer' = NewTracer(rid)
            /\ trace_calls' = [push |-> 0, pop |-> 0]
    /\ TracerOp("start_tracing", rid, <<>>, FALSE)
    /\ UNCHANGED NotTracing

\* end_tracing(rid, raise_ex); run_id may be None.
EndTracing(rid, raise_ex) ==
    /\ IF tracer = NoTracer
       THEN /\ TracerOp("end_tracing", rid, <<>>, raise_ex)
            /\ UNCHANGED tracer
       ELSE IF rid # None /\ tracer.run_id # rid
       THEN /\ TracerOp("end_tracing", rid, <<>>, FALSE)
            /\ UNCHANGED tracer
       ELSE /\ TracerOp("end_tracing", rid, tracer.traces, FALSE)
            /\ tracer' = NoTracer
    /\ UNCHANGED trace_calls
    /\ UNCHANGED NotTracing

\* push(trace): without an active tracer a warning and nothing else.
Push ==
    /\ trace_calls.push < MaxPushes
    /\ IF tracer = NoTracer
       THEN UNCHANGED <<tracer, trace_calls>>
       ELSE /\ tracer' = TracerPush(tracer, UtcNow)
            /\ trace_calls' = [trace_calls EXCEPT !.push = @ + 1]
    /\ TracerOp("push", None, <<>>, FALSE)
    /\ UNCHANGED NotTracing

\* pop(output, error) on the active tracer; with an empty stack the first
\* statement raises IndexError.
PopTrace ==
    /\ tracer # NoTracer
    /\ IF tracer.trace_stack = <<>>
       THEN /\ TracerOp("pop", None, <<>>, TRUE)
            /\ UNCHANGED <<tracer, trace_calls>>
       ELSE /\ TracerOp("pop", None, <<>>, FALSE)
            /\ tracer' = TracerPop(tracer, UtcNow)
            /\ trace_calls' = [trace_calls EXCEPT !.pop = @ + 1]
    /\ UNCHANGED NotTracing

InitTracing ==
    /\ InitTracingIdle
    /\ InitConfigIdle
    /\ InitWideIdle
    /\ InitStreamIdle
    /\ InitTraceIdle
    /\ InitInvokeIdle
    /\ InitRunsIdle
    /\ InitIdsIdle
    /\ InitLineIdle
    /\ InitNoBatch
    /\ InitStorageIdle
    /\ InitIoIdle
    /\ InitInputsIdle
    /\ InitFeedIdle

NextTracing ==
    \/ \E rid \in TracerRuns : StartTracing(rid)
    \/ \E rid \in TracerRuns \cup {None}, raise_ex \in BOOLEAN :
           EndTracing(rid, raise_ex)
    \/ Push
    \/ PopTrace

SpecTracing == InitTracing /\ [][NextTracing]_vars

\* The last call was a push or a pop that an active tracer carried out.
Pushed ==
    /\ tracer_op # <<>>
    /\ tracer_op.op = "push"
    /\ tracer_op.before # NoTracer

Popped ==
    /\ tracer_op # <<>>
    /\ tracer_op.op = "pop"
    /\ ~tracer_op.raised

\* The trace the last push brought.
LastPushed == Len(tracer.objects)

PushedOnEmptyStackIsRoot ==
    (Pushed /\ tracer_op.before.trace_stack = <<>>) =>
        /\ tracer.traces = Append(tracer_op.before.traces, LastPushed)
        /\ tracer.trace_stack = <<LastPushed>>
        /\ \A id \in DOMAIN tracer_op.before.objects :
               tracer.objects[id] = tracer_op.before.objects[id]

PushedOnStackIsLastChildOfTop ==
    (Pushed /\ tracer_op.before.trace_stack # <<>>) =>
        LET top == Top(tracer_op.before)
        IN  /\ tracer.traces = tracer_op.before.traces
            /\ tracer.trace_stack = Append(tracer_op.before.trace_stack, LastPushed)
            /\ tracer.objects[top].children =
                   Append(tracer_op.before.objects[top].children, LastPushed)
            /\ \A id \in DOMAIN tracer_op.before.objects \ {top} :
                   tracer.objects[id] = tracer_op.before.objects[id]

PopRemovesTopAndSetsEndTime ==
    Popped =>
        LET top == Top(tracer_op.before)
        IN  /\ tracer.trace_stack =
                   SubSeq(tracer_op.before.trace_stack, 1,
                          Len(tracer_op.before.trace_stack) - 1)
            /\ tracer.traces = tracer_op.before.traces
            /\ tracer_op.before.objects[top].end_time = 0
            /\ tracer.objects[top].end_time >= tracer.objects[top].start_time
            /\ tracer.objects[top].end_time > 0
            /\ \A id \in DOMAIN tracer.objects \ {top} :
                   tracer.objects[id] = tracer_op.before.objects[id]

\* The stack holds as many frames as pushes are not yet matched by a pop.
StackIsPushesLessPops ==
    tracer # NoTracer =>
        /\ Len(tracer.trace_stack) = trace_calls.push - trace_calls.pop
        /\ trace_calls.push = trace_calls.pop => tracer.trace_stack = <<>>

\* The roots are the traces that are no one's child, in the order they were
\* pushed.
RootsInPushOrder(t) ==
    /\ \A i, j \in DOMAIN t.traces : i < j => t.traces[i] < t.traces[j]
    /\ \A id \in DOMAIN t.objects :
           (\E i \in DOMAIN t.traces : t.traces[i] = id)
               <=> ~(\E parent \in DOMAIN t.objects :
                        \E k \in DOMAIN t.objects[parent].children :
                            t.objects[parent].children[k] = id)

EndTracingReturnsRoots ==
    (/\ tracer_op # <<>>
     /\ tracer_op.op = "end_tracing"
     /\ tracer_op.before # NoTracer
     /\ tracer = NoTracer) =>
        /\ tracer_op.result = tracer_op.before.traces
        /\ RootsInPushOrder(tracer_op.before)

\* C36: on an active tracer a trace pushed on the empty stack becomes a root
\* trace, a trace pushed on a non-empty stack becomes the last child of the
\* top frame, pop removes the top frame and sets its end time, after as
\* many pops as pushes the stack is empty, and end_tracing returns the root
\* traces in the order they were pushed.
C36_PushPopBuildTheTraceTree ==
    /\ PushedOnEmptyStackIsRoot
    /\ PushedOnStackIsLastChildOfTop
    /\ PopRemovesTopAndSetsEndTime
    /\ StackIsPushesLessPops
    /\ tracer # NoTracer => RootsInPushOrder(tracer)
    /\ EndTracingReturnsRoots

\* C36 witness: end_tracing has returned two root traces, the first of them
\* with two children, after as many pops as pushes.
C36_Witness ==
    /\ tracer_op # <<>>
    /\ tracer_op.op = "end_tracing"
    /\ tracer = NoTracer
    /\ trace_calls.push = trace_calls.pop
    /\ Len(tracer_op.result) = 2
    /\ Len(tracer_op.before.objects[tracer_op.result[1]].children) = 2

\* The last call was start_tracing or end_tracing.
Started == tracer_op # <<>> /\ tracer_op.op = "start_tracing"
Ended == tracer_op # <<>> /\ tracer_op.op = "end_tracing"

StartWhileActiveChangesNothing ==
    (Started /\ tracer_op.before # NoTracer) => tracer = tracer_op.before

EndOfOtherRunChangesNothing ==
    (/\ Ended
     /\ tracer_op.before # NoTracer
     /\ tracer_op.arg # None
     /\ tracer_op.arg # tracer_op.before.run_id) =>
        /\ tracer_op.result = <<>>
        /\ ~tracer_op.raised
        /\ tracer = tracer_op.before

EndOfMatchingRunDeactivates ==
    (/\ Ended
     /\ tracer_op.before # NoTracer
     /\ tracer_op.arg = tracer_op.before.run_id) =>
        /\ tracer = NoTracer
        /\ ~tracer_op.raised
        /\ tracer_op.result = tracer_op.before.traces

MainThreadStep ==
    \/ Execute
    \/ WaitFutures
    \/ ExceptCancel
    \/ Raise
    \/ Return

\* A worker thread takes a task; a tool invocation ends.
WorkerTakesTask == \E n \in Nodes : StartTask(n)
ToolTerminates == \E n \in Nodes : FinishTask(n)

\* Every acyclic flow over Nodes with at most one activate condition, with
\* tools that return and tools that raise, every concurrency.
InitTerminates ==
    /\ deps \in AcyclicDeps
    /\ activate \in OneActivation
    /\ \A n \in Nodes : activate[n] \in ActivateChoices(n)
    /\ enable_cache = [n \in Nodes |-> FALSE]
    /\ tool \in [Nodes -> {t \in ToolKinds : ~t.coroutine /\ t.hashable}]
    /\ flow_inputs \in Values
    /\ node_concurrency \in 1..MaxConcurrency
    /\ InitRun
    /\ InitNoBatch
    /\ InitRest

SpecTerminates ==
    /\ InitTerminates
    /\ [][NextLine]_vars
    /\ WF_vars(MainThreadStep)
    /\ WF_vars(WorkerTakesTask)
    /\ WF_vars(ToolTerminates)

\* The node is in the map that execute returns, with the result of its tool
\* or, bypassed, with None.
CompletedOrBypassed(n) ==
    /\ n \in DOMAIN completed_nodes_outputs
    /\ IF n \in bypassed_nodes
       THEN completed_nodes_outputs[n] = None /\ tool_calls[n] = 0
       ELSE /\ completed_nodes_outputs[n] = ToolFn(n, task[n].kwargs)
            /\ task[n].kwargs = GetNodeValidInputs(n)

\* C38: for an acyclic flow whose tool invocations all terminate, execute
\* terminates, and when it returns normally every node is in the completed
\* outputs with the result of its tool or is bypassed with output None.
C38_ExecuteTerminates ==
    /\ <>(pc \in {"returned", "raised"})
    /\ [](pc = "returned" => \A n \in Nodes : CompletedOrBypassed(n))

\* C38 witness: execute has returned for a flow with a bypassed node and a
\* completed node that refers to another node.
C38_Witness ==
    /\ pc = "returned"
    /\ \E n \in Nodes : n \in bypassed_nodes /\ completed_nodes_outputs[n] = None
    /\ \E n \in Nodes :
           /\ n \notin bypassed_nodes
           /\ deps[n] # {}
           /\ completed_nodes_outputs[n] = ToolFn(n, task[n].kwargs)

====
